---- MODULE Spec2Model ----
(***************************************************************************)
(* EchoLink: the TextMonitor (src/src/echolink/core/monitor.py) as a state *)
(* machine, and the TextSummarizer (src/src/echolink/core/summarizer.py)   *)
(* as functions of its arguments, the settings and the provider's answer.  *)
(* The construction of the settings (src/src/echolink/config/settings.py)  *)
(* is one step that succeeds or raises.  The handlers of the EchoLinkApp   *)
(* (src/echolink.py) and the methods of the CLIInterface                   *)
(* (src/src/echolink/ui/cli.py) are one step each, on the fields their     *)
(* constructors assign.                                                    *)
(* One caller thread ("main") runs the monitor's public operations; each   *)
(* start_clipboard_monitoring creates a poll-loop thread.  The monitor     *)
(* takes no lock, so _notify_callbacks is split at every access to the     *)
(* shared fields (processed_texts, text_callbacks).                        *)
(***************************************************************************)
EXTENDS Integers, Sequences, FiniteSets, TLC

(* ------------------------------ bounds --------------------------------- *)
\* settings.min_text_length (default 50), scaled down
MinTextLength == 2
\* the literal 1000 of _notify_callbacks, scaled down; the 500 it keeps is
\* half of it (KeepCount)
CacheCapacity == 4

\* settings.max_summary_length (default 150), scaled down; twice it is
\* room for a paragraph of four meaningful sentences
MaxSummaryLength == 10
\* the literal 10 of simple_summarize (a sentence is meaningful when longer),
\* scaled down
MinSentenceLength == 2

(* ------------------------- program constants --------------------------- *)
\* requests.post(..., timeout=30)
ProviderTimeout == 30

\* monitor_thread.join(timeout=2)
JoinTimeout == 2

KeepCount == CacheCapacity \div 2

(* ------------------------------- texts --------------------------------- *)
\* str.lower() on one character
LowerChar(c) ==
    CASE c = "A" -> "a"
      [] c = "B" -> "b"
      [] OTHER -> c

\* str.lower()
Lower(s) == [i \in 1..Len(s) |-> LowerChar(s[i])]

IsSpace(c) == c \in {" ", "\n"}

RECURSIVE LStrip(_)
LStrip(s) ==
    IF s # <<>> /\ IsSpace(Head(s)) THEN LStrip(Tail(s)) ELSE s

RECURSIVE RStrip(_)
RStrip(s) ==
    IF s # <<>> /\ IsSpace(s[Len(s)]) THEN RStrip(SubSeq(s, 1, Len(s) - 1)) ELSE s

\* str.strip()
Strip(s) == RStrip(LStrip(s))

\* the fingerprint of the text as it is: hash(text)
TextHashExact(text) == text

\* text_hash = str(hash(text.strip().lower())): the fingerprint is a function
\* of the normalised text (hash collisions are not modelled)
TextHash(text) == Lower(Strip(text))

\* the two early returns of _notify_callbacks: empty after strip, or too short
TooShort(text) == Strip(text) = <<>> \/ Len(Strip(text)) < MinTextLength

\* the loop's own filter before it calls _notify_callbacks
LoopAccepts(text) == text # <<>> /\ Len(Strip(text)) >= MinTextLength

\* the texts of the sequential specifications: short ones, one at the
\* minimum length, two spellings of one fingerprint, and further
\* fingerprints to overflow the cache
ManualTexts ==
    { <<>>, <<" ", "a", " ">>, <<"a", "b">>, <<"a", "b", "c">>,
      <<" ", "A", "b", "c", " ">>, <<"b", "c", "d">>, <<"c", "d", "e">>,
      <<"d", "e", "f">>, <<"e", "f", "g">> }

\* six texts with six fingerprints
CacheTexts ==
    { <<"a", "b", "c">>, <<"b", "c", "d">>, <<"c", "d", "e">>,
      <<"d", "e", "f">>, <<"e", "f", "g">>, <<"f", "g", "h">> }

\* the texts of the status specification: enough fingerprints to overflow
\* the cache
ClipTexts ==
    { <<" ", "a", " ">>, <<"a", "b", "c">>, <<"b", "c", "d">>, <<"c", "d", "e">>,
      <<"d", "e", "f">>, <<"e", "f", "g">> }

\* the texts of the pipeline specification
FewTexts == { <<" ", "a", " ">>, <<"a", "b", "c">>, <<"A", "B", "c">>, <<"b", "c", "d">> }

\* the texts of the start/stop specification
StartTexts == { <<"a">>, <<"a", "b", "c">> }

(* ----------------------------- subscribers ----------------------------- *)
\* "ok" returns, "bad" raises on every call, "hang" never returns
Callbacks == {"ok", "bad", "hang"}

NoCalls == [cb \in Callbacks |-> 0]

\* the thread of the caller of the public operations
Main == 0
\* the thread objects start_clipboard_monitoring can create: a thread that
\* outlives a timed-out stop, and its successor
LoopThreads == {1, 2}
Threads == {Main} \cup LoopThreads

VARIABLES
    enabled,            \* settings.clipboard_monitor_enabled
    monitoring,         \* self.monitoring
    monitor_thread,     \* self.monitor_thread: {} for None, else {thread}
    clipboard_content,  \* self.clipboard_content
    text_callbacks,     \* self.text_callbacks
    processed_texts,    \* self.processed_texts
    os_clipboard,       \* what pyperclip.paste() returns
    th,                 \* per thread: position and locals
    elapsed,            \* time main has waited in join()
    last,               \* observer: the public operation main completed last
    man,                \* observer: the last completed process_manual_text
    newest,             \* observer: the last fingerprints inserted, in order
    escaped,            \* observer: per thread, the last exception that left
                        \* _notify_callbacks or the body of the poll loop
    summarization_enabled,  \* settings.summarization_enabled
    sumcall,            \* observer: the last call of a TextSummarizer method,
                        \* with its arguments and its outcome
    environ,            \* the names os.getenv finds with a non-empty value
    settings_obj,       \* the module-level settings object: not yet
                        \* constructed, constructed, or the exception its
                        \* construction raised
    app,                \* the fields of the EchoLinkApp
    appcall,            \* observer: the last call of an EchoLinkApp method,
                        \* and whether the synthesizer it holds passed its test
    ui,                 \* the fields of the CLIInterface
    nav                 \* observer: the last two calls of CLIInterface
                        \* methods, each with the fields it found

prog == <<enabled, monitoring, monitor_thread, clipboard_content,
          text_callbacks, processed_texts, os_clipboard, th, elapsed>>

\* the state outside the monitor
\* the application object and its interface
shell == <<app, appcall, ui, nav>>

others == <<summarization_enabled, sumcall, environ, settings_obj, shell>>

vars == <<prog, last, man, newest, escaped, others>>

(* ------------------------------ settings ------------------------------- *)
\* required_settings of _validate_required_settings
RequiredSettings == {"ELEVENLABS_API_KEY"}

Unloaded == [state |-> "unloaded", missing |-> {}]

Loaded == [state |-> "loaded", missing |-> {}]

\* raise ValueError(f"Missing required settings: {', '.join(missing_settings)} ...")
MissingSettings(missing) == [state |-> "ValueError", missing |-> missing]

\* _validate_required_settings without lines 50-54
ValidateNothing == Loaded

\* _validate_required_settings: the required names whose property, read
\* from the environment with default '', is empty
ValidateRequiredSettings ==
    LET missing_settings == {setting \in RequiredSettings : setting \notin environ}
    IN IF missing_settings # {} THEN MissingSettings(missing_settings) ELSE Loaded

\* settings = EchoLinkSettings(), run by the first import of the settings
\* module
LoadSettings ==
    /\ settings_obj = Unloaded
    /\ settings_obj' = ValidateRequiredSettings
    /\ UNCHANGED <<prog, summarization_enabled, sumcall, environ, shell>>

\* "from ..config.settings import settings" succeeded: the monitor module
\* and its TextMonitor class exist
Imported == settings_obj = Loaded

(* ------------------------------ frames --------------------------------- *)
\* the locals of a thread: pc, the text argument of _notify_callbacks, the
\* list read at line 75, the size the set iterator of line 79 recorded, the
\* invocations made by the current call, and the exception that last escaped
\* _notify_callbacks or the clipboard read
Frame(pc) ==
    [pc |-> pc, text |-> <<>>, snap |-> {}, size0 |-> 0, inv |-> NoCalls,
     exc |-> "none"]

\* the members the set iterator has already yielded
Seen(f) == {cb \in Callbacks : f.inv[cb] > 0}

Alive(t) == th[t].pc \notin {"unborn", "dead"}

AliveLoops == {t \in LoopThreads : Alive(t)}

\* monitor_thread.is_alive()
ThreadAlive == \E t \in monitor_thread : Alive(t)

MainIdle == th[Main].pc = "idle"

(* ----------------------- subscriber registration ----------------------- *)
\* add_text_callback
AddTextCallback(cb) ==
    /\ MainIdle
    /\ text_callbacks' = text_callbacks \cup {cb}
    /\ UNCHANGED <<enabled, monitoring, monitor_thread, clipboard_content,
                   processed_texts, os_clipboard, th, elapsed>>

\* remove_text_callback without the discard of line 47
RemoveTextCallbackKeeps(cb) ==
    /\ MainIdle
    /\ UNCHANGED <<enabled, monitoring, monitor_thread, clipboard_content,
                   text_callbacks, processed_texts, os_clipboard, th, elapsed>>

\* remove_text_callback
RemoveTextCallback(cb) ==
    /\ MainIdle
    /\ text_callbacks' = text_callbacks \ {cb}
    /\ UNCHANGED <<enabled, monitoring, monitor_thread, clipboard_content,
                   processed_texts, os_clipboard, th, elapsed>>

(* --------------------------- _notify_callbacks ------------------------- *)
\* LoopCatch without the try/except of lines 97 and 111: the exception ends
\* the thread
LoopCatchDies(t, why) ==
    th' = [th EXCEPT ![t] = [Frame("dead") EXCEPT !.exc = why]]

\* lines 111-113: an exception that escapes the body of the loop is caught
\* and logged, and the loop sleeps one second before the next iteration
LoopCatch(t, why) ==
    th' = [th EXCEPT ![t] = [Frame("backoff") EXCEPT !.exc = why]]

\* _notify_callbacks ends: it returns (why = "none") or an exception leaves
\* it.  In main the caller of process_manual_text gets control back; in a
\* loop thread control is back in _monitor_clipboard, at the sleep of line
\* 109 or in the handler of lines 111-113
Return(t, why) ==
    IF t = Main
    THEN th' = [th EXCEPT ![t] = [Frame("idle") EXCEPT !.exc = why]]
    ELSE IF why = "none"
         THEN th' = [th EXCEPT ![t] = Frame("sleep")]
         ELSE LoopCatch(t, why)

\* NotifyTest without the minimum-length filter of lines 59-62
NotifyTestNoLength(t) ==
    /\ th[t].pc = "n_test"
    /\ IF Strip(th[t].text) = <<>> \/ TextHash(th[t].text) \in processed_texts
       THEN Return(t, "none")
       ELSE th' = [th EXCEPT ![t].pc = "n_add"]
    /\ UNCHANGED <<enabled, monitoring, monitor_thread, clipboard_content,
                   text_callbacks, processed_texts, os_clipboard, elapsed>>

\* NotifyTest without the membership test of lines 66-68
NotifyTestNoDedup(t) ==
    /\ th[t].pc = "n_test"
    /\ IF TooShort(th[t].text)
       THEN Return(t, "none")
       ELSE th' = [th EXCEPT ![t].pc = "n_add"]
    /\ UNCHANGED <<enabled, monitoring, monitor_thread, clipboard_content,
                   text_callbacks, processed_texts, os_clipboard, elapsed>>

\* lines 56-68: the two filters and the membership test
NotifyTest(t) ==
    /\ th[t].pc = "n_test"
    /\ IF TooShort(th[t].text) \/ TextHash(th[t].text) \in processed_texts
       THEN Return(t, "none")
       ELSE th' = [th EXCEPT ![t].pc = "n_add"]
    /\ UNCHANGED <<enabled, monitoring, monitor_thread, clipboard_content,
                   text_callbacks, processed_texts, os_clipboard, elapsed>>

\* NotifyAdd without the insertion of line 70
NotifyAddForgets(t) ==
    /\ th[t].pc = "n_add"
    /\ th' = [th EXCEPT ![t].pc = "n_len"]
    /\ UNCHANGED <<enabled, monitoring, monitor_thread, clipboard_content,
                   text_callbacks, processed_texts, os_clipboard, elapsed>>

\* line 70: self.processed_texts.add(text_hash)
NotifyAdd(t) ==
    /\ th[t].pc = "n_add"
    /\ processed_texts' = processed_texts \cup {TextHash(th[t].text)}
    /\ th' = [th EXCEPT ![t].pc = "n_len"]
    /\ UNCHANGED <<enabled, monitoring, monitor_thread, clipboard_content,
                   text_callbacks, os_clipboard, elapsed>>

\* line 79: for callback in self.text_callbacks creates the set iterator,
\* which records the size of the set
NewIterator(f) ==
    [f EXCEPT !.pc = "n_next", !.snap = {}, !.size0 = Cardinality(text_callbacks)]

\* line 73: if len(self.processed_texts) > 1000; if so line 75 reads the set
\* into a list, else the fan-out of line 79 begins
NotifyLen(t) ==
    /\ th[t].pc = "n_len"
    /\ IF Cardinality(processed_texts) > CacheCapacity
       THEN th' = [th EXCEPT ![t].pc = "n_assign", ![t].snap = processed_texts]
       ELSE th' = [th EXCEPT ![t] = NewIterator(@)]
    /\ UNCHANGED <<enabled, monitoring, monitor_thread, clipboard_content,
                   text_callbacks, processed_texts, os_clipboard, elapsed>>

\* list(self.processed_texts)[-500:]: a set lists its members in hash-table
\* order, which is unrelated to insertion order, so the slice is any
\* KeepCount members of the list
KeptSlices(snap) ==
    {k \in SUBSET snap : Cardinality(k) = IF Cardinality(snap) < KeepCount
                                          THEN Cardinality(snap) ELSE KeepCount}

\* line 75: self.processed_texts = set(...), then the fan-out begins
NotifyAssign(t) ==
    /\ th[t].pc = "n_assign"
    /\ \E kept \in KeptSlices(th[t].snap) : processed_texts' = kept
    /\ th' = [th EXCEPT ![t] = NewIterator(@)]
    /\ UNCHANGED <<enabled, monitoring, monitor_thread, clipboard_content,
                   text_callbacks, os_clipboard, elapsed>>

\* Invoke without the try/except of lines 80-83: the exception of "bad"
\* leaves _notify_callbacks
InvokeNoCatch(t, cb) ==
    IF cb = "bad"
    THEN Return(t, "callback")
    ELSE th' = [th EXCEPT ![t].pc = IF cb = "hang" THEN "n_hung" ELSE "n_next",
                          ![t].inv = [@ EXCEPT ![cb] = @ + 1]]

\* lines 80-83: one callback invocation.  "ok" returns; the exception of
\* "bad" is caught and logged and the iteration goes on; "hang" never returns
Invoke(t, cb) ==
    th' = [th EXCEPT ![t].pc = IF cb = "hang" THEN "n_hung" ELSE "n_next",
                     ![t].inv = [@ EXCEPT ![cb] = @ + 1]]

\* line 79: the iterator's next(): RuntimeError if the set changed size,
\* else a member not yet yielded (in any order), else the loop ends
NotifyNext(t) ==
    /\ th[t].pc = "n_next"
    /\ IF Cardinality(text_callbacks) # th[t].size0
       THEN Return(t, "setchanged")
       ELSE IF text_callbacks \ Seen(th[t]) = {}
            THEN Return(t, "none")
            ELSE \E cb \in text_callbacks \ Seen(th[t]) : Invoke(t, cb)
    /\ UNCHANGED <<enabled, monitoring, monitor_thread, clipboard_content,
                   text_callbacks, processed_texts, os_clipboard, elapsed>>

NotifyStep(t) ==
    \/ NotifyTest(t)
    \/ NotifyAdd(t)
    \/ NotifyLen(t)
    \/ NotifyAssign(t)
    \/ NotifyNext(t)

(* ------------------------- other public operations --------------------- *)
\* process_manual_text
ProcessManualText(text) ==
    /\ MainIdle
    /\ th' = [th EXCEPT ![Main] = [Frame("n_test") EXCEPT !.text = text]]
    /\ UNCHANGED <<enabled, monitoring, monitor_thread, clipboard_content,
                   text_callbacks, processed_texts, os_clipboard, elapsed>>

\* clear_processed_cache forgetting the last observed content as well
ClearForgetsContent ==
    /\ MainIdle
    /\ processed_texts' = {}
    /\ clipboard_content' = <<>>
    /\ UNCHANGED <<enabled, monitoring, monitor_thread, text_callbacks,
                   os_clipboard, th, elapsed>>

\* clear_processed_cache
ClearProcessedCache ==
    /\ MainIdle
    /\ processed_texts' = {}
    /\ UNCHANGED <<enabled, monitoring, monitor_thread, clipboard_content,
                   text_callbacks, os_clipboard, th, elapsed>>

\* get_monitoring_status: the dictionary it returns
StatusOf ==
    [clipboard_monitoring |-> monitoring,
     active_callbacks |-> Cardinality(text_callbacks),
     processed_texts_count |-> Cardinality(processed_texts),
     thread_alive |-> ThreadAlive]

\* get_monitoring_status that empties the cache it reports on
StatusClearsCache ==
    /\ MainIdle
    /\ processed_texts' = {}
    /\ UNCHANGED <<enabled, monitoring, monitor_thread, clipboard_content,
                   text_callbacks, os_clipboard, th, elapsed>>

GetMonitoringStatus ==
    /\ MainIdle
    /\ UNCHANGED prog

(* ------------------------------ poll loop ------------------------------ *)
\* lines 90-94: the initial pyperclip.paste(); a failure leaves ""
LoopInit(t) ==
    /\ th[t].pc = "init"
    /\ \/ clipboard_content' = os_clipboard
       \/ clipboard_content' = <<>>
    /\ th' = [th EXCEPT ![t].pc = "while"]
    /\ UNCHANGED <<enabled, monitoring, monitor_thread, text_callbacks,
                   processed_texts, os_clipboard, elapsed>>

\* line 96: while self.monitoring; the thread ends when the test fails
LoopWhile(t) ==
    /\ th[t].pc = "while"
    /\ th' = [th EXCEPT ![t] = IF monitoring
                               THEN [@ EXCEPT !.pc = "read"]
                               ELSE Frame("dead")]
    /\ UNCHANGED <<enabled, monitoring, monitor_thread, clipboard_content,
                   text_callbacks, processed_texts, os_clipboard, elapsed>>

\* LoopRead without line 102: the last observed content is not updated
LoopReadNoUpdate(t) ==
    /\ th[t].pc = "read"
    /\ th' = [th EXCEPT ![t] =
                IF os_clipboard # clipboard_content /\ LoopAccepts(os_clipboard)
                THEN [Frame("n_test") EXCEPT !.text = os_clipboard]
                ELSE [@ EXCEPT !.pc = "sleep"]]
    /\ UNCHANGED <<enabled, monitoring, monitor_thread, clipboard_content,
                   text_callbacks, processed_texts, os_clipboard, elapsed>>

\* lines 98-106: paste, compare with the last content, remember it, filter,
\* and enter _notify_callbacks
LoopRead(t) ==
    /\ th[t].pc = "read"
    /\ IF os_clipboard # clipboard_content
       THEN /\ clipboard_content' = os_clipboard
            /\ th' = [th EXCEPT ![t] =
                        IF LoopAccepts(os_clipboard)
                        THEN [Frame("n_test") EXCEPT !.text = os_clipboard]
                        ELSE [@ EXCEPT !.pc = "sleep"]]
       ELSE /\ th' = [th EXCEPT ![t].pc = "sleep"]
            /\ UNCHANGED clipboard_content
    /\ UNCHANGED <<enabled, monitoring, monitor_thread, text_callbacks,
                   processed_texts, os_clipboard, elapsed>>

\* line 98: pyperclip.paste() raises
LoopReadFails(t) ==
    /\ th[t].pc = "read"
    /\ LoopCatch(t, "paste")
    /\ UNCHANGED <<enabled, monitoring, monitor_thread, clipboard_content,
                   text_callbacks, processed_texts, os_clipboard, elapsed>>

\* line 109: time.sleep(settings.clipboard_monitor_interval);
\* line 113: time.sleep(1)
LoopSleep(t) ==
    /\ th[t].pc \in {"sleep", "backoff"}
    /\ th' = [th EXCEPT ![t] = Frame("while")]
    /\ UNCHANGED <<enabled, monitoring, monitor_thread, clipboard_content,
                   text_callbacks, processed_texts, os_clipboard, elapsed>>

LoopStep(t) ==
    \/ LoopInit(t)
    \/ LoopWhile(t)
    \/ LoopRead(t)
    \/ LoopReadFails(t)
    \/ LoopSleep(t)
    \/ NotifyStep(t)

\* the user copies a text
UserCopy(text) ==
    /\ os_clipboard # text
    /\ os_clipboard' = text
    /\ UNCHANGED <<enabled, monitoring, monitor_thread, clipboard_content,
                   text_callbacks, processed_texts, th, elapsed>>

(* ---------------------------- start and stop --------------------------- *)
\* start_clipboard_monitoring without the test of lines 121-123: a new
\* thread is created and started also while one is running
StartNoRunningCheck(pool) ==
    /\ MainIdle
    /\ IF ~enabled
       THEN UNCHANGED <<monitoring, monitor_thread, th>>
       ELSE \E t \in pool :
               /\ ~Alive(t)
               /\ monitoring' = TRUE
               /\ monitor_thread' = {t}
               /\ th' = [th EXCEPT ![t] = Frame("init")]
    /\ UNCHANGED <<enabled, clipboard_content, text_callbacks, processed_texts,
                   os_clipboard, elapsed>>

\* start_clipboard_monitoring without the test of lines 117-119
StartIgnoresSetting(pool) ==
    /\ MainIdle
    /\ IF monitoring
       THEN UNCHANGED <<monitoring, monitor_thread, th>>
       ELSE \E t \in pool :
               /\ ~Alive(t)
               /\ monitoring' = TRUE
               /\ monitor_thread' = {t}
               /\ th' = [th EXCEPT ![t] = Frame("init")]
    /\ UNCHANGED <<enabled, clipboard_content, text_callbacks, processed_texts,
                   os_clipboard, elapsed>>

\* start_clipboard_monitoring; pool holds the thread objects it can create
StartClipboardMonitoring(pool) ==
    /\ MainIdle
    /\ IF ~enabled \/ monitoring
       THEN UNCHANGED <<monitoring, monitor_thread, th>>
       ELSE \E t \in pool :
               /\ ~Alive(t)
               /\ monitoring' = TRUE
               /\ monitor_thread' = {t}
               /\ th' = [th EXCEPT ![t] = Frame("init")]
    /\ UNCHANGED <<enabled, clipboard_content, text_callbacks, processed_texts,
                   os_clipboard, elapsed>>

\* stop_monitoring up to the join: the no-op when idle, else the flag is
\* cleared and a live thread is joined
StopMonitoring ==
    /\ MainIdle
    /\ IF ~monitoring
       THEN UNCHANGED <<monitoring, th, elapsed>>
       ELSE /\ monitoring' = FALSE
            /\ IF ThreadAlive
               THEN /\ th' = [th EXCEPT ![Main].pc = "join"]
                    /\ elapsed' = 0
               ELSE UNCHANGED <<th, elapsed>>
    /\ UNCHANGED <<enabled, monitor_thread, clipboard_content, text_callbacks,
                   processed_texts, os_clipboard>>

\* join(timeout) goes on waiting: the thread lives and time is left
JoinWaits(timeout) ==
    /\ th[Main].pc = "join"
    /\ ThreadAlive
    /\ elapsed < timeout
    /\ elapsed' = elapsed + 1
    /\ UNCHANGED <<enabled, monitoring, monitor_thread, clipboard_content,
                   text_callbacks, processed_texts, os_clipboard, th>>

\* join(timeout) returns: the thread has ended or the timeout has passed
JoinReturns(timeout) ==
    /\ th[Main].pc = "join"
    /\ ~ThreadAlive \/ elapsed >= timeout
    /\ th' = [th EXCEPT ![Main].pc = "idle"]
    /\ elapsed' = 0
    /\ UNCHANGED <<enabled, monitoring, monitor_thread, clipboard_content,
                   text_callbacks, processed_texts, os_clipboard>>

\* join() without a timeout: it returns only when the thread has ended
JoinUnbounded ==
    /\ th[Main].pc = "join"
    /\ ~ThreadAlive
    /\ th' = [th EXCEPT ![Main].pc = "idle"]
    /\ elapsed' = 0
    /\ UNCHANGED <<enabled, monitoring, monitor_thread, clipboard_content,
                   text_callbacks, processed_texts, os_clipboard>>

\* line 143: self.monitor_thread.join(timeout=2)
JoinStep ==
    \/ JoinWaits(JoinTimeout)
    \/ JoinReturns(JoinTimeout)

(* ------------------------------ observers ------------------------------ *)
\* What a test harness around the monitor records; no action of the program
\* reads these variables.
Op(name, pre, res) == [op |-> name, pre |-> pre, res |-> res]

NoMan ==
    [valid |-> FALSE, text |-> <<>>, fresh |-> FALSE, inv |-> NoCalls,
     trunc |-> FALSE, cur |-> FALSE, rep |-> FALSE, pfresh |-> FALSE,
     pinv |-> NoCalls]

\* the last k elements of a sequence
LastK(s, k) == IF Len(s) <= k THEN s ELSE SubSeq(s, Len(s) - k + 1, Len(s))

Range(s) == {s[i] : i \in 1..Len(s)}

\* a public operation that is one step: its name, the running flag before
\* it, and what it returned (status) or the loop threads alive before it
SeeOp(name) ==
    last' = Op(name, monitoring, IF name = "status" THEN StatusOf ELSE AliveLoops)

\* stop_monitoring is seen when it returns, directly or from the join
SeeStop ==
    last' = IF th'[Main].pc = "idle"
            THEN Op("stop", monitoring \/ th[Main].pc = "join", AliveLoops)
            ELSE last

\* a step of _notify_callbacks in main, seen by the caller of
\* process_manual_text.  When the call returns: its text, whether it passed
\* the membership test (fresh), the invocations it made, whether the cache
\* was truncated during it, and whether it repeats the text of the call just
\* before it (rep: nothing in between, no truncation since that call began),
\* with what that call did (pfresh, pinv)
SeeManual ==
    LET f == th[Main]
        done == th'[Main].pc = "idle"
        tr == f.pc = "n_assign"
        rep == man.valid /\ ~man.trunc /\ man.text = f.text
    IN man' = IF done
              THEN [valid |-> TRUE, text |-> f.text, fresh |-> f.pc # "n_test",
                    inv |-> f.inv, trunc |-> man.cur, cur |-> FALSE,
                    rep |-> rep, pfresh |-> rep /\ man.fresh,
                    pinv |-> IF rep THEN man.inv ELSE NoCalls]
              ELSE [man EXCEPT !.trunc = @ \/ tr, !.cur = @ \/ tr]

\* clear_processed_cache, seen by its caller: the fingerprints the cache
\* held (pre) and those of them not submitted again since (res)
SeeClear ==
    last' = Op("clear", processed_texts, processed_texts)

\* the membership test of a manual call after a reset takes the text's
\* fingerprint off the ones not submitted again
SeeResubmit ==
    last' = IF last.op = "clear" /\ th[Main].pc = "n_test"
            THEN [last EXCEPT !.res = @ \ {TextHash(th[Main].text)}]
            ELSE last

\* the fingerprints inserted, the newest last (KeepCount of them are kept)
SeeInsert(t) ==
    newest' = IF th[t].pc = "n_add"
              THEN LastK(Append(newest, TextHash(th[t].text)), KeepCount)
              ELSE newest

\* an exception leaves _notify_callbacks or the body of the loop in thread t
SeeExc(t) ==
    escaped' = IF th'[t].exc # "none" /\ th'[t].pc # th[t].pc
               THEN [escaped EXCEPT ![t] = th'[t].exc]
               ELSE escaped

(* ----------------------------- summarizer ----------------------------- *)
\* src/src/echolink/core/summarizer.py.  The methods are functions of their
\* arguments, of the settings and of what the provider answers.

Take(s, n) == SubSeq(s, 1, IF n < Len(s) THEN n ELSE Len(s))

Drop(s, n) == SubSeq(s, n + 1, Len(s))

StartsWith(s, d) == Len(s) >= Len(d) /\ SubSeq(s, 1, Len(d)) = d

\* the position of the first occurrence of d in s, 0 if there is none
RECURSIVE Find(_, _)
Find(s, d) ==
    IF Len(s) < Len(d) THEN 0
    ELSE IF StartsWith(s, d) THEN 1
    ELSE LET r == Find(Tail(s), d) IN IF r = 0 THEN 0 ELSE r + 1

\* the length of the run of characters of cs that s begins with
RECURSIVE RunLen(_, _)
RunLen(s, cs) ==
    IF s # <<>> /\ Head(s) \in cs THEN 1 + RunLen(Tail(s), cs) ELSE 0

Repeat(c, n) == [i \in 1..n |-> c]

\* re.sub(r'\s+', ' ', text)
RECURSIVE CollapseSpace(_)
CollapseSpace(s) ==
    IF s = <<>> THEN <<>>
    ELSE IF IsSpace(Head(s)) THEN <<" ">> \o CollapseSpace(LStrip(s))
    ELSE <<Head(s)>> \o CollapseSpace(Tail(s))

\* re.sub of a pattern  open (.*?) close : leftmost matches, each ending at
\* the first close after its open; a match is replaced by its group
\* (keep) or by repl
RECURSIVE Delimited(_, _, _, _, _)
Delimited(s, open, close, keep, repl) ==
    IF s = <<>> THEN <<>>
    ELSE LET rest == Drop(s, Len(open))
             j == IF StartsWith(s, open) THEN Find(rest, close) ELSE 0
         IN IF j > 0
            THEN (IF keep THEN SubSeq(rest, 1, j - 1) ELSE repl)
                    \o Delimited(Drop(rest, j - 1 + Len(close)), open, close, keep, repl)
            ELSE <<Head(s)>> \o Delimited(Tail(s), open, close, keep, repl)

\* re.sub(r'#{1,6}\s*', '', text)
RECURSIVE RemoveHeaders(_)
RemoveHeaders(s) ==
    IF s = <<>> THEN <<>>
    ELSE IF Head(s) = "#"
         THEN LET n == RunLen(s, {"#"})
              IN RemoveHeaders(LStrip(Drop(s, IF n > 6 THEN 6 ELSE n)))
         ELSE <<Head(s)>> \o RemoveHeaders(Tail(s))

\* the scheme of a URL that s begins with, <<>> if none: https?://
UrlScheme(s) ==
    IF StartsWith(s, <<"h", "t", "t", "p", "s", ":", "/", "/">>)
    THEN <<"h", "t", "t", "p", "s", ":", "/", "/">>
    ELSE IF StartsWith(s, <<"h", "t", "t", "p", ":", "/", "/">>)
         THEN <<"h", "t", "t", "p", ":", "/", "/">>
         ELSE <<>>

\* the length of the run of non-space characters s begins with
RECURSIVE WordLen(_)
WordLen(s) ==
    IF s # <<>> /\ ~IsSpace(Head(s)) THEN 1 + WordLen(Tail(s)) ELSE 0

\* re.sub(r'https?://([^\s]+)', r'website \1', text)
RECURSIVE ReplaceUrls(_)
ReplaceUrls(s) ==
    IF s = <<>> THEN <<>>
    ELSE LET rest == Drop(s, Len(UrlScheme(s)))
             n == IF UrlScheme(s) # <<>> THEN WordLen(rest) ELSE 0
         IN IF n > 0
            THEN <<"w", "e", "b", "s", "i", "t", "e", " ">> \o Take(rest, n)
                    \o ReplaceUrls(Drop(rest, n))
            ELSE <<Head(s)>> \o ReplaceUrls(Tail(s))

\* re.sub(r'[c]{least,}', repl, text)
RECURSIVE CollapseRun(_, _, _, _)
CollapseRun(s, c, least, repl) ==
    IF s = <<>> THEN <<>>
    ELSE IF Head(s) = c
         THEN LET n == RunLen(s, {c})
              IN (IF n >= least THEN repl ELSE Repeat(c, n))
                    \o CollapseRun(Drop(s, n), c, least, repl)
         ELSE <<Head(s)>> \o CollapseRun(Tail(s), c, least, repl)

\* the backquote character
Backtick == "backquote"

\* the ellipsis marker "..."
Ellipsis == <<".", ".", ".">>

CodeBlock == <<"[", "c", "o", "d", "e", " ", "b", "l", "o", "c", "k", "]">>

CodeSpan == <<"[", "c", "o", "d", "e", "]">>

\* clean_text: the substitutions of lines 55-73 in order, then strip()
CleanText(text) ==
    IF text = <<>> THEN <<>>
    ELSE LET t1 == CollapseSpace(text)
             t2 == Delimited(t1, <<"*", "*">>, <<"*", "*">>, TRUE, <<>>)
             t3 == Delimited(t2, <<"*">>, <<"*">>, TRUE, <<>>)
             t4 == Delimited(t3, <<Backtick>>, <<Backtick>>, TRUE, <<>>)
             t5 == RemoveHeaders(t4)
             t6 == ReplaceUrls(t5)
             t7 == Delimited(t6, <<Backtick, Backtick, Backtick>>, <<Backtick, Backtick, Backtick>>, FALSE, CodeBlock)
             t8 == Delimited(t7, <<Backtick>>, <<Backtick>>, FALSE, CodeSpan)
             t9 == CollapseRun(t8, ".", 3, Ellipsis)
             t10 == CollapseRun(t9, "!", 2, <<"!">>)
             t11 == CollapseRun(t10, "?", 2, <<"?">>)
         IN Strip(t11)

\* should_summarize with > replaced by >= at line 94
ShouldSummarizeInclusive(text) ==
    IF ~summarization_enabled THEN FALSE
    ELSE IF Len(text) < MinTextLength * 2 THEN FALSE
    ELSE Len(text) >= MaxSummaryLength * 2

\* should_summarize
ShouldSummarize(text) ==
    IF ~summarization_enabled THEN FALSE
    ELSE IF Len(text) < MinTextLength * 2 THEN FALSE
    ELSE Len(text) > MaxSummaryLength * 2

Terminators == {".", "!", "?"}

\* the length of the run of non-terminators s begins with
RECURSIVE PieceLen(_)
PieceLen(s) ==
    IF s # <<>> /\ Head(s) \notin Terminators THEN 1 + PieceLen(Tail(s)) ELSE 0

\* re.split(r'[.!?]+', text): the pieces between the runs of terminators,
\* the empty ones at the ends included
RECURSIVE SplitSentences(_)
SplitSentences(s) ==
    LET n == PieceLen(s)
    IN IF n = Len(s) THEN <<s>>
       ELSE <<Take(s, n)>>
               \o SplitSentences(Drop(s, n + RunLen(Drop(s, n), Terminators)))

\* lines 125-126, 164-165, 214-215: a summary longer than max_summary_length
\* is cut to it and the ellipsis appended
Truncate(summary) ==
    IF Len(summary) > MaxSummaryLength
    THEN Take(summary, MaxSummaryLength) \o Ellipsis
    ELSE summary

IsMeaningful(f) == Len(f) > MinSentenceLength

\* simple_summarize keeping the sentence before the last one, not the last,
\* at line 122
SimpleSummarizeNotLast(text) ==
    LET sentences == SplitSentences(text)
        stripped == [i \in 1..Len(sentences) |-> Strip(sentences[i])]
        meaningful == SelectSeq(stripped, IsMeaningful)
        n == Len(meaningful)
    IN IF n = 0 THEN Take(text, MaxSummaryLength) \o Ellipsis
       ELSE Truncate(IF n = 1 THEN meaningful[1]
                     ELSE IF n = 2 THEN meaningful[1] \o <<".", " ">> \o meaningful[2]
                     ELSE meaningful[1] \o <<".", " ", ".", ".", ".", " ">>
                             \o meaningful[n - 1])

\* simple_summarize
SimpleSummarize(text) ==
    LET sentences == SplitSentences(text)
        stripped == [i \in 1..Len(sentences) |-> Strip(sentences[i])]
        meaningful == SelectSeq(stripped, IsMeaningful)
        n == Len(meaningful)
    IN IF n = 0 THEN Take(text, MaxSummaryLength) \o Ellipsis
       ELSE Truncate(IF n = 1 THEN meaningful[1]
                     ELSE IF n = 2 THEN meaningful[1] \o <<".", " ">> \o meaningful[2]
                     ELSE meaningful[1] \o <<".", " ", ".", ".", ".", " ">>
                             \o meaningful[n])

\* Optional[str]
NoneValue == [some |-> FALSE, text |-> <<>>]

Some(t) == [some |-> TRUE, text |-> t]

\* if summary: neither None nor ""
Truthy(opt) == opt.some /\ opt.text # <<>>

\* the properties class EchoLinkSettings defines; reading any other
\* attribute of settings raises AttributeError
SettingsProperties ==
    {"elevenlabs_api_key", "elevenlabs_voice_id", "openai_api_key", "openai_model",
     "voice_speed", "voice_volume", "clipboard_monitor_enabled",
     "clipboard_monitor_interval", "cli_theme", "cli_colors_enabled",
     "summarization_enabled", "max_summary_length", "min_text_length",
     "debug_mode", "log_level"}

HasSetting(name) == name \in SettingsProperties

\* ai_summarize without lines 164-165
AiSummarizeNoTruncate(text, client, reply) ==
    IF ~client THEN NoneValue
    ELSE IF ~reply.some THEN NoneValue
    ELSE Some(Strip(reply.text))

\* ai_summarize: no client, or a request that fails (reply is None), gives
\* None; else the stripped reply, truncated
AiSummarize(text, client, reply) ==
    IF ~client THEN NoneValue
    ELSE IF ~reply.some THEN NoneValue
    ELSE Some(Truncate(Strip(reply.text)))

\* ollama_summarize: the body reads settings.ollama_model and
\* settings.ollama_base_url inside its try
OllamaSummarize(text, reply) ==
    IF ~HasSetting("ollama_model") \/ ~HasSetting("ollama_base_url") THEN NoneValue
    ELSE IF ~reply.some THEN NoneValue
    ELSE Some(Truncate(Strip(reply.text)))

\* how a call ends: it returns a string, returns a boolean, or raises
Returns(t) == [kind |-> "str", text |-> t, flag |-> FALSE]

ReturnsBool(b) == [kind |-> "bool", text |-> <<>>, flag |-> b]

Raises(exc) == [kind |-> exc, text |-> <<>>, flag |-> FALSE]

ReturnsNone == [kind |-> "NoneType", text |-> <<>>, flag |-> FALSE]

\* an Optional[str] as the outcome of the call that returns it
ReturnsOptional(opt) == IF opt.some THEN Returns(opt.text) ELSE ReturnsNone

\* summarize_text; provider is what the configuration asks for, read
\* through settings.summarization_provider at lines 246, 249 and 255
SummarizeText(text, provider, client, reply) ==
    IF text = <<>> \/ Strip(text) = <<>> THEN Returns(<<>>)
    ELSE LET cleaned_text == CleanText(text)
             ollama_summary == OllamaSummarize(cleaned_text, reply)
             openai_summary == AiSummarize(cleaned_text, client, reply)
         IN IF ~ShouldSummarize(cleaned_text) THEN Returns(cleaned_text)
            ELSE IF ~HasSetting("summarization_provider") THEN Raises("AttributeError")
            ELSE IF provider = "ollama" /\ Truthy(ollama_summary)
                 THEN Returns(ollama_summary.text)
            ELSE IF provider = "openai" /\ Truthy(openai_summary)
                 THEN Returns(openai_summary.text)
            ELSE Returns(SimpleSummarize(cleaned_text))

\* the letters re.IGNORECASE folds and [A-Z] matches
LowerLetters ==
    <<"a", "b", "c", "d", "e", "f", "g", "h", "i", "j", "k", "l", "m", "n", "o", "p", "q", "r", "s", "t", "u", "v", "w", "x", "y", "z">>

UpperLetters ==
    <<"A", "B", "C", "D", "E", "F", "G", "H", "I", "J", "K", "L", "M", "N", "O", "P", "Q", "R", "S", "T", "U", "V", "W", "X", "Y", "Z">>

Digits == {"0", "1", "2", "3", "4", "5", "6", "7", "8", "9"}

IsUpper(c) == \E i \in 1..Len(UpperLetters) : UpperLetters[i] = c

\* one character under re.IGNORECASE
FoldChar(c) ==
    IF IsUpper(c)
    THEN LowerLetters[CHOOSE i \in 1..Len(UpperLetters) : UpperLetters[i] = c]
    ELSE c

\* \w
IsWordChar(c) ==
    \/ IsUpper(c)
    \/ \E i \in 1..Len(LowerLetters) : LowerLetters[i] = c
    \/ c \in Digits
    \/ c = "_"

\* \b before place i of s: a word character on exactly one side
Boundary(s, i) ==
    (i - 1 >= 1 /\ i - 1 <= Len(s) /\ IsWordChar(s[i - 1]))
        # (i >= 1 /\ i <= Len(s) /\ IsWordChar(s[i]))

\* the literal pat, in any case, at place i of s
MatchesAt(s, i, pat) ==
    /\ i + Len(pat) - 1 <= Len(s)
    /\ \A k \in 1..Len(pat) : FoldChar(s[i + k - 1]) = pat[k]

\* re.sub(r'\bpat\b', repl, s, flags=re.IGNORECASE), from place i on
RECURSIVE SubWord(_, _, _, _)
SubWord(s, i, pat, repl) ==
    IF i > Len(s) THEN <<>>
    ELSE IF MatchesAt(s, i, pat) /\ Boundary(s, i) /\ Boundary(s, i + Len(pat))
         THEN repl \o SubWord(s, i + Len(pat), pat, repl)
         ELSE <<s[i]>> \o SubWord(s, i + 1, pat, repl)

\* the replacements dictionary of process_for_voice, in its order
Replacements ==
    << <<<<"d", "r">>, <<"d", "o", "c", "t", "o", "r">>>>,
       <<<<"m", "r">>, <<"m", "i", "s", "t", "e", "r">>>>,
       <<<<"m", "r", "s">>, <<"m", "i", "s", "s", "u", "s">>>>,
       <<<<"m", "s">>, <<"m", "i", "s", "s">>>>,
       <<<<"e", "t", "c">>, <<"e", "t", "c", "e", "t", "e", "r", "a">>>>,
       <<<<"v", "s">>, <<"v", "e", "r", "s", "u", "s">>>>,
       <<<<"w", "/">>, <<"w", "i", "t", "h">>>>,
       <<<<"w", "/", "o">>, <<"w", "i", "t", "h", "o", "u", "t">>>>,
       <<<<"e", ".", "g", ".">>,
         <<"f", "o", "r", " ", "e", "x", "a", "m", "p", "l", "e">>>>,
       <<<<"i", ".", "e", ".">>, <<"t", "h", "a", "t", " ", "i", "s">>>> >>

\* the for loop of lines 294-295 from entry k on
RECURSIVE Abbreviations(_, _)
Abbreviations(s, k) ==
    IF k > Len(Replacements) THEN s
    ELSE Abbreviations(SubWord(s, 1, Replacements[k][1], Replacements[k][2]), k + 1)

\* re.sub(r'([.!?])\s*([A-Z])', r'\1... \2', s)
RECURSIVE AddPauses(_)
AddPauses(s) ==
    IF s = <<>> THEN <<>>
    ELSE LET w == RunLen(Tail(s), {" ", "\n"})
         IN IF Head(s) \in Terminators /\ Len(s) >= w + 2 /\ IsUpper(s[w + 2])
            THEN <<Head(s)>> \o Ellipsis \o <<" ", s[w + 2]>> \o AddPauses(Drop(s, w + 2))
            ELSE <<Head(s)>> \o AddPauses(Tail(s))

\* lines 301-302 without the appended full stop
EnsureFinalNever(s) == s

\* lines 301-302
EnsureFinal(s) ==
    IF s # <<>> /\ s[Len(s)] \notin Terminators THEN s \o <<".">> ELSE s

\* process_for_voice; an exception of summarize_text propagates
ProcessForVoice(text, provider, client, reply) ==
    LET processed_text == SummarizeText(text, provider, client, reply)
    IN IF processed_text.kind # "str" THEN processed_text
       ELSE Returns(EnsureFinal(AddPauses(Abbreviations(processed_text.text, 1))))

\* a request sent to a provider, with the timeouts given to it (none, or one)
Request(to, timeouts) == [to |-> to, timeouts |-> timeouts]

\* the requests ai_summarize sends: none without a client, else one call of
\* chat.completions.create, to which lines 151-159 pass no timeout
AiRequests(client) == IF client THEN <<Request("openai", {})>> ELSE <<>>

\* the requests ollama_summarize sends: the payload of line 193 reads
\* settings.ollama_model before requests.post is reached
OllamaRequests ==
    IF ~HasSetting("ollama_model") \/ ~HasSetting("ollama_base_url") THEN <<>>
    ELSE <<Request("ollama", {ProviderTimeout})>>

\* the requests one call of summarize_text sends
SummarizeTextRequests(text, provider, client) ==
    IF text = <<>> \/ Strip(text) = <<>> THEN <<>>
    ELSE IF ~ShouldSummarize(CleanText(text)) THEN <<>>
    ELSE IF ~HasSetting("summarization_provider") THEN <<>>
    ELSE IF provider = "ollama" THEN OllamaRequests
    ELSE IF provider = "openai" THEN AiRequests(client)
    ELSE <<>>

\* the provider names summarize_text tests for, and the default
Providers == {"simple", "ollama", "openai"}

\* what the provider answers: a failure, an empty text, a short summary, a
\* long one
Replies ==
    { NoneValue, Some(<<>>), Some(<<"a", "b">>),
      Some(Repeat("b", MaxSummaryLength + 2)) }

\* the texts given to the summarizer: plain texts of every length up to
\* past twice the maximum, paragraphs of three sentences of every length up
\* to past the minimum, and texts with white space, markdown and a URL
Paragraph(i, j, k) ==
    Repeat("a", i) \o <<".", " ">> \o Repeat("b", j) \o <<"!">> \o Repeat("c", k)

SumTexts ==
    { Repeat("a", n) : n \in 0..(2 * MaxSummaryLength + 2) }
    \cup { Paragraph(i, j, k) : i, j, k \in 0..(MinSentenceLength + 2) }
    \cup { <<" ", "\n">>,
           <<" ", "a", "\n", "\n", "a", "a", " ", " ", "a", "a", "a", "a", "a", " ">>,
           <<"*", "*", "a", "a", "*", "*", " ", "*", "a", "*", Backtick, "a", Backtick, "a", "a", "a", "a", "a">>,
           <<"#", "#", " ", "a", "a", "a", "a", "a", "a", "a", "a", "a", "a">>,
           <<"h", "t", "t", "p", ":", "/", "/", "a", " ", "a">>,
           <<"a", ".", ".", ".", ".", "a", "!", "!", "a", "?", "?", "?", "a">> }

\* a paragraph of four sentences, i, j, k and l characters long
FourSentences(i, j, k, l) ==
    Repeat("a", i) \o <<".">> \o Repeat("b", j) \o <<"?">> \o Repeat("c", k)
        \o <<"!">> \o Repeat("d", l) \o <<".">>

\* the paragraphs of four meaningful sentences that are exactly twice the
\* maximum summary length long, or one character longer
ScenarioTexts ==
    { FourSentences(i, j, k, l) :
        <<i, j, k, l>> \in { q \in ((MinSentenceLength + 1)..MaxSummaryLength)
                                  \X {MinSentenceLength + 1}
                                  \X {MinSentenceLength + 1}
                                  \X ((MinSentenceLength + 1)..MaxSummaryLength) :
                              q[1] + q[2] + q[3] + q[4] + 4
                                  \in {2 * MaxSummaryLength, 2 * MaxSummaryLength + 1} } }

\* the texts given to process_for_voice: empty and blank ones, the
\* abbreviations in either case, alone, inside words and next to
\* punctuation, sentence ends before capitals, and a text to summarize
VoiceTexts ==
    { <<>>,
      <<" ", "\n">>,
      <<"d", "r">>,
      <<"D", "r", " ", "a">>,
      <<"a", " ", "d", "r", ".">>,
      <<"a", "d", "r">>,
      <<"M", "r", ".", " ", "B">>,
      <<"m", "r", "s">>,
      <<"m", "s", " ", "b">>,
      <<"a", "b", ".", " ", "C", "d">>,
      <<"a", "!", " ", " ", "B">>,
      <<"a", "?", "b">>,
      <<"w", "/", "a">>,
      <<"w", "/", "o">>,
      <<"a", " ", "w", "/", " ", "b">>,
      <<"e", ".", "g", ".", "a">>,
      <<"e", ".", "g", ".", " ", "a">>,
      <<"i", ".", "e", ".">>,
      <<"i", ".", "e", ".", "b">>,
      <<"e", "t", "c">>,
      <<"a", " ", "v", "s", " ", "B">>,
      <<"a", "b", "c", " ">>,
      <<"a", "v", "s">>,
      <<"a", "?">>,
      <<"A", ".", "B", ".", "C">>,
      <<"a", ".", "\n", "B">>,
      Repeat("a", 2 * MaxSummaryLength + 1) }

\* what goes wrong between the request and the summary; each raises an
\* exception inside the try of the strategy
Faults == {"connection refused", "timeout", "bad status", "malformed reply"}

\* the provider's answer as the strategies see it: the text, or no text
\* when the request or the reading of the reply raised
Answer(fault, text) == IF fault \in Faults THEN NoneValue ELSE Some(text)

\* the texts a provider may send, one with white space around it
AnswerTexts ==
    { <<>>, <<"a", "b">>, <<" ", "a", "b", "\n">>, Repeat("b", MaxSummaryLength),
      Repeat("b", MaxSummaryLength + Len(Ellipsis) + 1) }

\* texts long enough to be summarized
LongTexts == { Repeat("a", n) : n \in (2 * MaxSummaryLength + 1)..(2 * MaxSummaryLength + 2) }

NoSum ==
    [op |-> "none", text |-> <<>>, provider |-> "simple", client |-> FALSE,
     reply |-> NoneValue, res |-> Raises("none"), sent |-> <<>>]

\* a call of summarize_text, seen by its caller
SummarizeTextCall(text, provider, client, reply) ==
    /\ sumcall.op = "none"
    /\ sumcall' = [op |-> "summarize_text", text |-> text, provider |-> provider,
                   client |-> client, reply |-> reply,
                   res |-> SummarizeText(text, provider, client, reply),
                   sent |-> SummarizeTextRequests(text, provider, client)]
    /\ UNCHANGED <<prog, summarization_enabled, environ, settings_obj, shell>>

\* a call of should_summarize, seen by its caller
ShouldSummarizeCall(text) ==
    /\ sumcall.op = "none"
    /\ sumcall' = [NoSum EXCEPT !.op = "should_summarize", !.text = text,
                                !.res = ReturnsBool(ShouldSummarize(text))]
    /\ UNCHANGED <<prog, summarization_enabled, environ, settings_obj, shell>>

\* a call of simple_summarize, seen by its caller
SimpleSummarizeCall(text) ==
    /\ sumcall.op = "none"
    /\ sumcall' = [NoSum EXCEPT !.op = "simple_summarize", !.text = text,
                                !.res = Returns(SimpleSummarize(text))]
    /\ UNCHANGED <<prog, summarization_enabled, environ, settings_obj, shell>>

\* a call of process_for_voice, seen by its caller
ProcessForVoiceCall(text, provider, client, reply) ==
    /\ sumcall.op = "none"
    /\ sumcall' = [op |-> "process_for_voice", text |-> text, provider |-> provider,
                   client |-> client, reply |-> reply,
                   res |-> ProcessForVoice(text, provider, client, reply),
                   sent |-> SummarizeTextRequests(text, provider, client)]
    /\ UNCHANGED <<prog, summarization_enabled, environ, settings_obj, shell>>

\* a call of ai_summarize, seen by its caller
AiSummarizeCall(text, client, reply) ==
    /\ sumcall.op = "none"
    /\ sumcall' = [NoSum EXCEPT !.op = "ai_summarize", !.text = text,
                                !.provider = "openai", !.client = client,
                                !.reply = reply,
                                !.res = ReturnsOptional(AiSummarize(text, client, reply)),
                                !.sent = AiRequests(client)]
    /\ UNCHANGED <<prog, summarization_enabled, environ, settings_obj, shell>>

\* a call of ollama_summarize, seen by its caller
OllamaSummarizeCall(text, reply) ==
    /\ sumcall.op = "none"
    /\ sumcall' = [NoSum EXCEPT !.op = "ollama_summarize", !.text = text,
                                !.provider = "ollama", !.reply = reply,
                                !.res = ReturnsOptional(OllamaSummarize(text, reply)),
                                !.sent = OllamaRequests]
    /\ UNCHANGED <<prog, summarization_enabled, environ, settings_obj, shell>>

(* --------------------------- the application --------------------------- *)
\* processed_count is not bounded by the program: the deliveries a run of
\* the model makes
MaxProcessed == 3

\* the methods class TextMonitor defines
TextMonitorMethods ==
    {"add_text_callback", "remove_text_callback", "_notify_callbacks",
     "_monitor_clipboard", "start_clipboard_monitoring", "stop_monitoring",
     "process_manual_text", "clear_processed_cache", "get_monitoring_status"}

\* self.on_text_detected, as a member of the monitor's text_callbacks
OnTextDetectedCallback == "on_text_detected"

\* self.status_data of the CLIInterface
InitStatus ==
    [monitoring |-> FALSE, api_connected |-> FALSE, last_processed |-> "None",
     processed_count |-> 0]

\* the fields EchoLinkApp.__init__ assigns
InitApp ==
    [voice_synthesizer |-> "None", monitoring_active |-> FALSE,
     processed_count |-> 0]

\* no call yet; passed: test_synthesis returned True for the object
\* self.voice_synthesizer holds; attempted: the call ran
\* initialize_voice_synthesizer; count0: processed_count when the call
\* began; played: the text handed to play_text; caught: the exception the
\* handler's except clause logged; escaped: the exception that left it
NoAppCall ==
    [op |-> "none", text |-> <<>>, passed |-> FALSE, attempted |-> FALSE,
     count0 |-> 0, played |-> NoneValue, caught |-> "none", escaped |-> "none"]

\* the monitor's fields no EchoLinkApp handler assigns, and the rest of the
\* state outside the application
AppFrame ==
    <<enabled, monitor_thread, clipboard_content, processed_texts,
      os_clipboard, th, elapsed, last, man, newest, escaped,
      summarization_enabled, sumcall, environ, settings_obj, nav>>

\* initialize_voice_synthesizer: constructed says VoiceSynthesizer()
\* returned, tested says test_synthesis() returned True.  The object is
\* assigned before it is tested.
InitializeVoiceSynthesizer(constructed, tested) ==
    IF "ELEVENLABS_API_KEY" \notin environ
        THEN [voice_synthesizer |-> app.voice_synthesizer, ok |-> FALSE]
    ELSE IF ~constructed
        THEN [voice_synthesizer |-> app.voice_synthesizer, ok |-> FALSE]
    ELSE [voice_synthesizer |-> "VoiceSynthesizer", ok |-> tested]

\* whether the object held after a call that may have initialized passed
\* its test
PassedAfter(initialize, init) ==
    IF initialize /\ init.voice_synthesizer # app.voice_synthesizer
        THEN init.ok
        ELSE appcall.passed

\* EchoLinkApp.start_monitoring.  After the callback is registered, line 139
\* reads settings.file_monitor_enabled and line 143 calls
\* text_monitor.start_monitoring(): either raises AttributeError when the
\* name is not defined, and the except clause of line 160 ends the call
AppStartMonitoring(constructed, tested) ==
    LET initialize == ~app.monitoring_active /\ app.voice_synthesizer = "None"
        init == InitializeVoiceSynthesizer(constructed, tested)
        ready == ~app.monitoring_active /\ (initialize => init.ok)
        started == /\ ready
                   /\ HasSetting("file_monitor_enabled")
                   /\ "start_monitoring" \in TextMonitorMethods
    IN /\ app' = [app EXCEPT
                    !.voice_synthesizer = IF initialize THEN init.voice_synthesizer ELSE @,
                    !.monitoring_active = IF started THEN TRUE ELSE @]
       /\ text_callbacks' = IF ready THEN text_callbacks \cup {OnTextDetectedCallback}
                                     ELSE text_callbacks
       /\ monitoring' = monitoring
       /\ ui' = [ui EXCEPT
                    !.status_data.api_connected = IF initialize /\ init.ok THEN TRUE ELSE @,
                    !.status_data.monitoring = IF started THEN TRUE ELSE @]
       /\ appcall' = [NoAppCall EXCEPT
                    !.op = "start_monitoring",
                    !.passed = PassedAfter(initialize, init),
                    !.attempted = initialize,
                    !.caught = IF ready /\ ~started THEN "AttributeError" ELSE "none"]
       /\ UNCHANGED AppFrame

\* EchoLinkApp.stop_monitoring
AppStopMonitoring ==
    /\ app' = [app EXCEPT !.monitoring_active = FALSE]
    /\ monitoring' = IF app.monitoring_active THEN FALSE ELSE monitoring
    /\ ui' = [ui EXCEPT !.status_data.monitoring =
                            IF app.monitoring_active THEN FALSE ELSE @]
    /\ appcall' = [NoAppCall EXCEPT !.op = "stop_monitoring",
                                    !.passed = appcall.passed]
    /\ UNCHANGED <<text_callbacks, AppFrame>>

\* EchoLinkApp.test_voice: playable says play_text returned
AppTestVoice(constructed, tested, playable) ==
    LET initialize == app.voice_synthesizer = "None"
        init == InitializeVoiceSynthesizer(constructed, tested)
        ready == initialize => init.ok
    IN /\ app' = [app EXCEPT
                    !.voice_synthesizer = IF initialize THEN init.voice_synthesizer ELSE @]
       /\ ui' = [ui EXCEPT
                    !.status_data.api_connected = IF initialize /\ init.ok THEN TRUE ELSE @]
       /\ appcall' = [NoAppCall EXCEPT
                    !.op = "test_voice",
                    !.passed = PassedAfter(initialize, init),
                    !.attempted = initialize,
                    !.caught = IF ready /\ ~playable THEN "Exception" ELSE "none"]
       /\ UNCHANGED <<text_callbacks, monitoring, AppFrame>>

\* the classes "except Exception" catches, of those the body can raise:
\* AttributeError from process_for_voice, and what play_text re-raises
CaughtClasses == {"AttributeError", "Exception"}

\* what leaves a try block with one "except Exception" clause
Leaves(exc) == IF exc \in CaughtClasses THEN "none" ELSE exc

\* on_text_detected with the increment of line 93 moved behind play_text
OnTextDetectedCountsLast(processed_text, playable) ==
    LET speak == /\ processed_text.kind = "str"
                 /\ Strip(processed_text.text) # <<>>
                 /\ app.voice_synthesizer # "None"
        raised == IF processed_text.kind # "str" THEN processed_text.kind
                  ELSE IF speak /\ ~playable THEN "Exception"
                  ELSE "none"
    IN [processed_count |-> IF raised = "none" THEN app.processed_count + 1
                                               ELSE app.processed_count,
        played |-> IF speak THEN Some(processed_text.text) ELSE NoneValue,
        caught |-> IF Leaves(raised) = "none" THEN raised ELSE "none",
        escaped |-> Leaves(raised)]

\* on_text_detected, given how process_for_voice ended (processed_text:
\* a string, or the exception it raised) and whether play_text returns: the
\* count and the status first, then process_for_voice, the test for an
\* empty text and play_text, all inside one try
OnTextDetected(processed_text, playable) ==
    LET speak == /\ processed_text.kind = "str"
                 /\ Strip(processed_text.text) # <<>>
                 /\ app.voice_synthesizer # "None"
        raised == IF processed_text.kind # "str" THEN processed_text.kind
                  ELSE IF speak /\ ~playable THEN "Exception"
                  ELSE "none"
    IN [processed_count |-> app.processed_count + 1,
        played |-> IF speak THEN Some(processed_text.text) ELSE NoneValue,
        caught |-> IF Leaves(raised) = "none" THEN raised ELSE "none",
        escaped |-> Leaves(raised)]

\* a text delivered to on_text_detected
OnTextDetectedCall(text, provider, client, reply, playable) ==
    \E processed_text \in {ProcessForVoice(text, provider, client, reply)} :
       LET out == OnTextDetected(processed_text, playable)
       IN /\ app.processed_count < MaxProcessed
          /\ app' = [app EXCEPT !.processed_count = out.processed_count]
          /\ ui' = [ui EXCEPT !.status_data.processed_count = app.processed_count + 1,
                              !.status_data.last_processed = "datetime"]
          /\ appcall' = [NoAppCall EXCEPT
                           !.op = "on_text_detected", !.text = text,
                           !.passed = appcall.passed,
                           !.count0 = app.processed_count,
                           !.played = out.played, !.caught = out.caught,
                           !.escaped = out.escaped]
          /\ UNCHANGED <<text_callbacks, monitoring, AppFrame>>

\* the texts delivered to the application: empty, blank, short, and long
\* enough to be summarized
AppTexts ==
    { <<>>, <<" ", " ">>, <<"a", "b">>, <<"a", "b", ".">>,
      Repeat("a", 2 * MaxSummaryLength + 1) }

(* --------------------------- the interface ----------------------------- *)
\* the depth of menu_stack is not bounded by the program: the depth a run
\* of the model reaches
MaxStack == 2

\* self.menus: per menu, the actions of its options in order
MenuOptions ==
    [main |-> <<"start_monitoring", "settings_menu", "test_voice",
                "show_status", "show_help", "exit">>,
     settings |-> <<"voice_settings", "monitor_settings", "ui_settings",
                    "api_settings", "back">>,
     voice_settings |-> <<"select_voice", "volume_settings", "speed_settings",
                          "back">>]

DefinedMenus == DOMAIN MenuOptions

\* the fields CLIInterface.__init__ assigns
InitInterface ==
    [current_menu |-> "main", menu_stack |-> <<>>, selected_index |-> 0,
     status_data |-> InitStatus]

\* self.menus.get(self.current_menu, self.menus["main"])["options"]
CurrentOptions(u) ==
    IF u.current_menu \in DefinedMenus THEN MenuOptions[u.current_menu]
                                       ELSE MenuOptions["main"]

\* navigate_up without the wrap-around
NavigateUpClamped(u) ==
    [u EXCEPT !.selected_index = IF @ = 0 THEN 0 ELSE @ - 1]

\* navigate_up
NavigateUp(u) ==
    [u EXCEPT !.selected_index = (@ - 1) % Len(CurrentOptions(u))]

\* navigate_down
NavigateDown(u) ==
    [u EXCEPT !.selected_index = (@ + 1) % Len(CurrentOptions(u))]

\* select_option: the action, or None
SelectOption(u) ==
    IF 0 <= u.selected_index /\ u.selected_index < Len(CurrentOptions(u))
        THEN Some(CurrentOptions(u)[u.selected_index + 1])
        ELSE NoneValue

\* change_menu without the append of line 234
ChangeMenuNoPush(u, menu_name) ==
    IF menu_name = "back" /\ u.menu_stack # <<>>
        THEN [u EXCEPT !.current_menu = u.menu_stack[Len(u.menu_stack)],
                       !.menu_stack = SubSeq(@, 1, Len(@) - 1),
                       !.selected_index = 0]
        ELSE [u EXCEPT !.current_menu = menu_name, !.selected_index = 0]

\* change_menu
ChangeMenu(u, menu_name) ==
    LET pushed == IF menu_name # "back" THEN Append(u.menu_stack, u.current_menu)
                                        ELSE u.menu_stack
    IN IF menu_name = "back" /\ pushed # <<>>
        THEN [u EXCEPT !.current_menu = pushed[Len(pushed)],
                       !.menu_stack = SubSeq(pushed, 1, Len(pushed) - 1),
                       !.selected_index = 0]
        ELSE [u EXCEPT !.current_menu = menu_name, !.menu_stack = pushed,
                       !.selected_index = 0]

\* the last two calls, the newest last
Seen2(op, name, num) ==
    LET entry == [op |-> op, name |-> name, num |-> num, before |-> ui]
    IN IF nav = <<>> THEN <<entry>> ELSE <<nav[Len(nav)], entry>>

\* everything outside the interface
InterfaceFrame ==
    <<prog, last, man, newest, escaped, summarization_enabled, sumcall,
      environ, settings_obj, app, appcall>>

NavigateUpCall ==
    /\ ui' = NavigateUp(ui)
    /\ nav' = Seen2("navigate_up", "", 0)
    /\ UNCHANGED InterfaceFrame

NavigateDownCall ==
    /\ ui' = NavigateDown(ui)
    /\ nav' = Seen2("navigate_down", "", 0)
    /\ UNCHANGED InterfaceFrame

\* change_menu called with a menu name or "back"
ChangeMenuCall(menu_name) ==
    /\ menu_name # "back" => Len(ui.menu_stack) < MaxStack
    /\ ui' = ChangeMenu(ui, menu_name)
    /\ nav' = Seen2("change_menu", menu_name, 0)
    /\ UNCHANGED InterfaceFrame

\* the numbers a user types: 0 and one more than the longest menu has
\* options are among them
Numbers == 0..(Len(MenuOptions["main"]) + 1)

\* display_menu_and_get_choice, from the first line of input it accepts
\* ("q", "b", the empty line, or a number of an option): the lines before
\* it print a message and change nothing
DisplayMenuAndGetChoice(key, num) ==
    LET max_option == Len(CurrentOptions(ui))
    IN /\ IF key = "digit" THEN 1 <= num /\ num <= max_option ELSE num = 0
       /\ ui' = IF key = "digit" THEN [ui EXCEPT !.selected_index = num - 1] ELSE ui
       /\ nav' = Seen2("choice", key, num)
       /\ UNCHANGED InterfaceFrame

\* the branch of run_interface for the action "back": change_menu only
\* with a menu on the stack, else the question whether to exit
RunInterfaceBack ==
    /\ ui' = IF ui.menu_stack # <<>> THEN ChangeMenu(ui, "back") ELSE ui
    /\ nav' = Seen2("run_interface", "back", 0)
    /\ UNCHANGED InterfaceFrame

\* the actions of handle_menu_action that change the menu
MenuActions ==
    [settings_menu |-> "settings", voice_settings |-> "voice_settings",
     back |-> "back"]

\* handle_menu_action for an action that changes the menu
HandleMenuAction(action) ==
    /\ action # "back" => Len(ui.menu_stack) < MaxStack
    /\ ui' = ChangeMenu(ui, MenuActions[action])
    /\ nav' = Seen2("handle_menu_action", action, 0)
    /\ UNCHANGED InterfaceFrame

(* -------------------------- specifications ----------------------------- *)
\* the state after TextMonitor() (lines 24-30), in an environment where
\* the setting is on and the system clipboard holds clip
InitObjects(on, clip) ==
    /\ enabled = on
    /\ monitoring = FALSE
    /\ monitor_thread = {}
    /\ clipboard_content = <<>>
    /\ text_callbacks = {}
    /\ processed_texts = {}
    /\ os_clipboard = clip
    /\ th = [t \in Threads |-> IF t = Main THEN Frame("idle") ELSE Frame("unborn")]
    /\ elapsed = 0
    /\ last = Op("none", FALSE, {})
    /\ man = NoMan
    /\ newest = <<>>
    /\ escaped = [t \in Threads |-> "none"]
    /\ sumcall = NoSum
    /\ summarization_enabled \in BOOLEAN
    /\ app = InitApp
    /\ appcall = NoAppCall
    /\ ui = InitInterface
    /\ nav = <<>>

\* the same, the settings module imported with the required setting present
InitWith(on, clip) ==
    /\ InitObjects(on, clip)
    /\ environ = RequiredSettings
    /\ settings_obj = Loaded

\* the process before the first import, with or without the required
\* setting in its environment
InitBoot ==
    /\ InitObjects(TRUE, <<>>)
    /\ summarization_enabled
    /\ environ \in SUBSET RequiredSettings
    /\ settings_obj = Unloaded

Init == InitWith(TRUE, <<>>) /\ summarization_enabled

InitSum == InitWith(TRUE, <<>>)

InitLife == \E on \in BOOLEAN : InitWith(on, <<>>) /\ summarization_enabled

\* the caller alone: registration, manual injection and reset, one call
\* after the other
NextManual ==
    \/ (\E cb \in {"ok", "bad"} : AddTextCallback(cb))
          /\ man' = NoMan /\ UNCHANGED <<last, newest, escaped, others>>
    \/ (\E cb \in {"ok", "bad"} : RemoveTextCallback(cb))
          /\ man' = NoMan /\ UNCHANGED <<last, newest, escaped, others>>
    \/ (\E text \in ManualTexts : ProcessManualText(text))
          /\ man' = [man EXCEPT !.cur = FALSE] /\ UNCHANGED <<last, newest, escaped, others>>
    \/ ClearProcessedCache
          /\ man' = NoMan /\ UNCHANGED <<last, newest, escaped, others>>
    \/ NotifyStep(Main)
          /\ SeeManual /\ SeeExc(Main) /\ UNCHANGED <<last, newest, others>>

SpecManual == Init /\ [][NextManual]_vars

\* the caller filling the cache: manual injection of distinct texts and reset
NextCache ==
    \/ (\E text \in CacheTexts : ProcessManualText(text))
          /\ UNCHANGED <<last, man, newest, escaped, others>>
    \/ ClearProcessedCache
          /\ newest' = <<>> /\ UNCHANGED <<last, man, escaped, others>>
    \/ NotifyStep(Main)
          /\ SeeInsert(Main) /\ UNCHANGED <<last, man, escaped, others>>

SpecCache == Init /\ [][NextCache]_vars

\* start and stop with two thread objects and no subscriber: a join that
\* times out leaves its thread alive, and the next start creates another
NextStart ==
    \/ StartClipboardMonitoring(LoopThreads)
          /\ SeeOp("start") /\ UNCHANGED <<man, newest, escaped, others>>
    \/ StopMonitoring
          /\ SeeStop /\ UNCHANGED <<man, newest, escaped, others>>
    \/ JoinStep
          /\ SeeStop /\ UNCHANGED <<man, newest, escaped, others>>
    \/ (\E t \in LoopThreads : LoopStep(t) /\ SeeExc(t))
          /\ UNCHANGED <<last, man, newest, others>>
    \/ (\E text \in StartTexts : UserCopy(text))
          /\ UNCHANGED <<last, man, newest, escaped, others>>

SpecStart == InitLife /\ [][NextStart]_vars

\* the life cycle: start, stop and the poll loop, with a subscriber that
\* can hang.  One thread object: a start while the thread of a timed-out
\* stop still lives is left to SpecStart
NextLife ==
    \/ (\E cb \in {"ok", "hang"} : AddTextCallback(cb))
          /\ UNCHANGED <<last, man, newest, escaped, others>>
    \/ (\E cb \in {"ok", "hang"} : RemoveTextCallback(cb))
          /\ UNCHANGED <<last, man, newest, escaped, others>>
    \/ StartClipboardMonitoring({1})
          /\ SeeOp("start") /\ UNCHANGED <<man, newest, escaped, others>>
    \/ StopMonitoring
          /\ SeeStop /\ UNCHANGED <<man, newest, escaped, others>>
    \/ JoinStep
          /\ SeeStop /\ UNCHANGED <<man, newest, escaped, others>>
    \/ LoopStep(1)
          /\ SeeExc(1) /\ UNCHANGED <<last, man, newest, others>>
    \/ (\E text \in FewTexts : UserCopy(text))
          /\ UNCHANGED <<last, man, newest, escaped, others>>

SpecLife == InitLife /\ [][NextLife]_vars

\* the poll loop filling the cache while the caller asks for the status
NextStatus ==
    \/ AddTextCallback("ok")
          /\ UNCHANGED <<last, man, newest, escaped, others>>
    \/ StartClipboardMonitoring({1})
          /\ UNCHANGED <<last, man, newest, escaped, others>>
    \/ GetMonitoringStatus
          /\ SeeOp("status") /\ UNCHANGED <<man, newest, escaped, others>>
    \/ LoopStep(1)
          /\ UNCHANGED <<last, man, newest, escaped, others>>
    \/ (\E text \in ClipTexts : UserCopy(text))
          /\ UNCHANGED <<last, man, newest, escaped, others>>

SpecStatus == Init /\ [][NextStatus]_vars

\* the pipeline: the caller and one poll loop interleaved
Next ==
    \/ (\E cb \in {"ok", "bad"} : AddTextCallback(cb))
          /\ man' = NoMan /\ UNCHANGED <<last, newest, escaped, others>>
    \/ (\E cb \in {"ok", "bad"} : RemoveTextCallback(cb))
          /\ man' = NoMan /\ UNCHANGED <<last, newest, escaped, others>>
    \/ (\E text \in FewTexts : ProcessManualText(text))
          /\ man' = [man EXCEPT !.cur = FALSE] /\ UNCHANGED <<last, newest, escaped, others>>
    \/ StartClipboardMonitoring({1})
          /\ man' = NoMan /\ UNCHANGED <<last, newest, escaped, others>>
    \/ NotifyStep(Main)
          /\ SeeManual /\ SeeExc(Main) /\ UNCHANGED <<last, newest, others>>
    \/ LoopStep(1)
          /\ SeeExc(1) /\ UNCHANGED <<last, man, newest, others>>
    \/ (\E text \in FewTexts : UserCopy(text))
          /\ UNCHANGED <<last, man, newest, escaped, others>>

Spec == Init /\ [][Next]_vars

\* start-up: the import of the settings, then the monitor with a failing
\* subscriber and a clipboard whose read can fail; nothing stops the monitor
NextBoot ==
    \/ LoadSettings
          /\ UNCHANGED <<last, man, newest, escaped>>
    \/ (Imported /\ \E cb \in {"ok", "bad"} : AddTextCallback(cb))
          /\ UNCHANGED <<last, man, newest, escaped, others>>
    \/ (Imported /\ StartClipboardMonitoring({1}))
          /\ UNCHANGED <<last, man, newest, escaped, others>>
    \/ (Imported /\ LoopStep(1))
          /\ SeeExc(1) /\ UNCHANGED <<last, man, newest, others>>
    \/ (\E text \in FewTexts : UserCopy(text))
          /\ UNCHANGED <<last, man, newest, escaped, others>>

SpecBoot == InitBoot /\ [][NextBoot]_vars

\* the texts the caller injects in the reset specification, two of them
\* with one fingerprint, and the one text the user copies
ResetTexts == { <<"a", "b", "c">>, <<" ", "A", "b", "c", " ">>, <<"b", "c", "d">> }

CopiedTexts == { <<"c", "d", "e">> }

\* reset: the caller injects texts, resets the cache and starts the
\* monitor, whose loop polls a clipboard with a text of its own
NextReset ==
    \/ AddTextCallback("ok")
          /\ UNCHANGED <<last, man, newest, escaped, others>>
    \/ (\E text \in ResetTexts : ProcessManualText(text))
          /\ man' = [man EXCEPT !.cur = FALSE] /\ UNCHANGED <<last, newest, escaped, others>>
    \/ ClearProcessedCache
          /\ SeeClear /\ man' = NoMan /\ UNCHANGED <<newest, escaped, others>>
    \/ StartClipboardMonitoring({1})
          /\ UNCHANGED <<last, man, newest, escaped, others>>
    \/ NotifyStep(Main)
          /\ SeeManual /\ SeeResubmit /\ UNCHANGED <<newest, escaped, others>>
    \/ LoopStep(1)
          /\ UNCHANGED <<last, man, newest, escaped, others>>
    \/ (\E text \in CopiedTexts : UserCopy(text))
          /\ UNCHANGED <<last, man, newest, escaped, others>>

SpecReset == Init /\ [][NextReset]_vars

\* the caller is done with the outcome of the last call
ForgetCall ==
    /\ sumcall.op # "none"
    /\ sumcall' = NoSum
    /\ UNCHANGED <<prog, summarization_enabled, environ, settings_obj, shell>>

\* the summarizer alone: calls of its methods on any text, with any
\* provider configured and any answer from it
NextSum ==
    \/ (\E text \in SumTexts \cup ScenarioTexts, provider \in Providers,
           client \in BOOLEAN, reply \in Replies :
               SummarizeTextCall(text, provider, client, reply))
          /\ UNCHANGED <<last, man, newest, escaped>>
    \/ (\E text \in SumTexts : ShouldSummarizeCall(text))
          /\ UNCHANGED <<last, man, newest, escaped>>
    \/ (\E text \in SumTexts \cup ScenarioTexts : SimpleSummarizeCall(text))
          /\ UNCHANGED <<last, man, newest, escaped>>
    \/ (\E text \in VoiceTexts, provider \in Providers,
           client \in BOOLEAN, reply \in Replies :
               ProcessForVoiceCall(text, provider, client, reply))
          /\ UNCHANGED <<last, man, newest, escaped>>
    \/ (\E text \in LongTexts, client \in BOOLEAN, fault \in Faults \cup {"none"},
           answer \in AnswerTexts : AiSummarizeCall(text, client, Answer(fault, answer)))
          /\ UNCHANGED <<last, man, newest, escaped>>
    \/ (\E text \in LongTexts, fault \in Faults \cup {"none"}, answer \in AnswerTexts :
           OllamaSummarizeCall(text, Answer(fault, answer)))
          /\ UNCHANGED <<last, man, newest, escaped>>
    \/ ForgetCall
          /\ UNCHANGED <<last, man, newest, escaped>>

SpecSum == InitSum /\ [][NextSum]_vars

\* the application alone: its handlers called one after the other, texts
\* delivered to its callback, with every outcome of the synthesizer; the
\* summarizer it holds has no OpenAI client (line 33 of summarizer.py
\* creates none before it has read settings.summarization_provider)
NextApp ==
    \/ \E constructed \in BOOLEAN, tested \in BOOLEAN :
          AppStartMonitoring(constructed, tested)
    \/ AppStopMonitoring
    \/ \E constructed \in BOOLEAN, tested \in BOOLEAN, playable \in BOOLEAN :
          AppTestVoice(constructed, tested, playable)
    \/ \E text \in AppTexts, provider \in Providers, playable \in BOOLEAN :
          OnTextDetectedCall(text, provider, FALSE, NoneValue, playable)

SpecApp == InitSum /\ [][NextApp]_vars

\* the interface alone: its methods called in any order
NextCli ==
    \/ NavigateUpCall
    \/ NavigateDownCall
    \/ \E menu_name \in DefinedMenus \cup {"back"} : ChangeMenuCall(menu_name)
    \/ \E key \in {"q", "b", "enter", "digit"}, num \in Numbers :
          DisplayMenuAndGetChoice(key, num)
    \/ RunInterfaceBack
    \/ \E action \in DOMAIN MenuActions : HandleMenuAction(action)

SpecCli == Init /\ [][NextCli]_vars

(* ------------------------------- claims -------------------------------- *)
PastTest == {"n_add", "n_len", "n_assign", "n_next", "n_hung"}

\* C1 (dedup idempotence): when process_manual_text(t) is called twice in
\* succession, with t passing the length filter, a non-empty subscriber set
\* and no truncation of the cache since the first call began, the second
\* call invokes no subscriber; and if t was not in the cache before the
\* first call, every subscriber was invoked exactly once in total.
DedupIdempotent ==
    (man.rep /\ Len(Strip(man.text)) >= MinTextLength /\ text_callbacks # {})
        => /\ man.inv = NoCalls
           /\ man.pfresh => \A cb \in text_callbacks : man.pinv[cb] + man.inv[cb] = 1

DedupIdempotentWitness ==
    /\ man.rep /\ man.pfresh
    /\ Len(Strip(man.text)) >= MinTextLength
    /\ text_callbacks = {"ok", "bad"}

\* C2 (length filter): a text whose trimmed length is below min_text_length
\* never gets past the test of _notify_callbacks, in the caller or in the
\* poll loop: no thread inserts it or fans it out, no fingerprint that short
\* is ever in the cache, and a manual call with it invokes nobody.
ShortTextDiscarded ==
    /\ \A t \in Threads :
          th[t].pc \in PastTest => Len(Strip(th[t].text)) >= MinTextLength
    /\ \A fp \in processed_texts : Len(fp) >= MinTextLength
    /\ (man.valid /\ Len(Strip(man.text)) < MinTextLength)
          => (man.inv = NoCalls /\ ~man.fresh)

ShortTextDiscardedWitness ==
    /\ man.valid /\ man.text # <<>> /\ Len(Strip(man.text)) < MinTextLength
    /\ text_callbacks # {}
    /\ th[1].pc = "sleep"
    /\ clipboard_content # <<>> /\ Len(Strip(clipboard_content)) < MinTextLength

\* C3 (subscriber isolation): the exception of a raising subscriber never
\* leaves _notify_callbacks, in the caller or in the poll loop, and a manual
\* call that fans out invokes every registered subscriber exactly once, in
\* whatever order the set is iterated.
SubscriberIsolation ==
    /\ \A t \in Threads : escaped[t] # "callback" /\ th[t].exc # "callback"
    /\ (man.valid /\ man.fresh) => \A cb \in text_callbacks : man.inv[cb] = 1

SubscriberIsolationWitness ==
    /\ man.valid /\ man.fresh
    /\ text_callbacks = {"ok", "bad"}
    /\ man.inv["bad"] = 1 /\ man.inv["ok"] = 1
    /\ th[1].pc = "n_next" /\ th[1].inv["bad"] = 1

\* C4 (cache bound), as claimed: every processed_texts_count that
\* get_monitoring_status returns is at most the cache capacity.
StatusWithinCapacity ==
    last.op = "status" => last.res.processed_texts_count <= CacheCapacity

\* C5 (eviction keeps the newest entry), as claimed: whenever no call is in
\* progress the fingerprint inserted last is in the cache and the cache
\* holds at most CacheCapacity fingerprints.
NewestSurvives ==
    (MainIdle /\ newest # <<>>)
        => /\ newest[Len(newest)] \in processed_texts
           /\ Cardinality(processed_texts) <= CacheCapacity

\* C6 (oldest-first eviction), as claimed: a truncation leaves exactly the
\* KeepCount fingerprints inserted last.
OldestEvictedFirst ==
    [][NotifyAssign(Main) => processed_texts' = Range(newest)]_vars

\* C7 (state machine): the monitor starts Idle; start moves Idle to Running
\* (when the setting is on) and stop moves Running to Idle; start while
\* Running changes nothing and creates no thread; stop while Idle changes
\* nothing.
StateMachine ==
    [][/\ (StartClipboardMonitoring(LoopThreads) /\ monitoring)
              => UNCHANGED <<monitoring, monitor_thread, th>>
       /\ (StartClipboardMonitoring(LoopThreads) /\ ~monitoring /\ enabled)
              => (monitoring' /\ \E t \in LoopThreads : ~Alive(t) /\ th'[t].pc = "init")
       /\ (StopMonitoring /\ monitoring) => ~monitoring'
       /\ (StopMonitoring /\ ~monitoring) => UNCHANGED prog
       /\ (last.op = "none" => ~monitoring)]_vars

StateMachineWitness ==
    /\ last.op = "start" /\ last.pre
    /\ monitoring /\ AliveLoops = last.res /\ AliveLoops = LoopThreads

\* C8 (start with the source disabled): with clipboard monitoring disabled
\* the monitor is never Running, no poll-loop thread exists and none has
\* invoked a subscriber, and start returns to the caller.
DisabledNeverRuns ==
    ~enabled => /\ ~monitoring
                /\ monitor_thread = {}
                /\ \A t \in LoopThreads : th[t] = Frame("unborn")
                /\ (last.op = "start" => MainIdle)

DisabledNeverRunsWitness ==
    ~enabled /\ last.op = "start" /\ text_callbacks # {} /\ os_clipboard # <<>>

\* C9 (stop is bounded): while stop_monitoring waits in join the state is
\* Idle, it has waited at most JoinTimeout, and it can go on (wait or
\* return) whatever the loop thread does; once stop has returned the state
\* is Idle.
StopBounded ==
    /\ th[Main].pc = "join"
          => (~monitoring /\ elapsed <= JoinTimeout /\ ENABLED JoinStep)
    /\ last.op = "stop" => ~monitoring

StopBoundedWitness ==
    /\ last.op = "stop" /\ last.pre /\ MainIdle
    /\ th[1].pc = "n_hung"

\* C10 (the poll loop survives errors): an exception in an iteration sends
\* the loop to its back-off, from which it tests the flag again; the thread
\* ends only at the test of the while, with the state Idle.
LoopSurvives ==
    [][\A t \in LoopThreads :
         /\ (th'[t].exc # "none" /\ th[t].exc = "none") => th'[t].pc = "backoff"
         /\ (th[t].pc = "backoff" /\ th'[t].pc # "backoff") => th'[t].pc = "while"
         /\ (th'[t].pc = "dead" /\ th[t].pc # "dead")
               => (th[t].pc = "while" /\ ~monitoring)]_vars

LoopSurvivesWitness ==
    /\ escaped[1] = "paste"
    /\ th[1].pc = "n_next" /\ th[1].inv["ok"] = 1
    /\ monitoring

\* C11 (subscriber-set mutation during fan-out), as claimed: an
\* add_text_callback or remove_text_callback that runs while a fan-out is in
\* progress never makes the fan-out fail: no exception of the set iterator
\* leaves _notify_callbacks in the caller or in the poll loop.
FanOutSurvivesMutation ==
    \A t \in Threads : escaped[t] # "setchanged" /\ th[t].exc # "setchanged"

\* C12 (dedup atomicity), as claimed: when the caller and the poll loop
\* handle texts with the same fingerprint at the same time, the membership
\* test and the insertion act as one step, so no subscriber is invoked for
\* that fingerprint by both.
DedupAtomic ==
    \A t \in LoopThreads : \A cb \in Callbacks :
        (/\ th[Main].pc \in PastTest /\ th[t].pc \in PastTest
         /\ TextHash(th[Main].text) = TextHash(th[t].text))
            => th[Main].inv[cb] + th[t].inv[cb] <= 1

\* C13 (a hung subscriber does not stall polling), as claimed: every
\* invocation the poll loop makes is bounded, so while the monitor is
\* Running a live loop thread can always take its next step.
HungSubscriberBounded ==
    \A t \in LoopThreads : (monitoring /\ Alive(t)) => ENABLED LoopStep(t)

\* the positions of _notify_callbacks after the insertion of line 70
Inserted == {"n_len", "n_assign", "n_next", "n_hung"}

\* C14 (manual injection and polling share one path and one cache): with
\* the cache below its capacity and never reset, a text that either route has inserted or
\* delivered has its fingerprint in the one cache, the cache never loses a
\* fingerprint, and a call of either route whose test finds the fingerprint
\* there returns without inserting or invoking anybody; the manual route
\* works whether or not the monitor is Running.
OneCacheBothRoutes ==
    [][/\ \A t \in Threads :
             th[t].pc \in Inserted => TextHash(th[t].text) \in processed_texts
       /\ (man.valid /\ man.fresh) => TextHash(man.text) \in processed_texts
       /\ processed_texts \subseteq processed_texts'
       /\ \A t \in Threads :
             (/\ th[t].pc = "n_test" /\ th'[t].pc # "n_test"
              /\ TextHash(th[t].text) \in processed_texts)
                => (th'[t].pc \notin PastTest /\ th'[t].inv = NoCalls)]_vars

OneCacheBothRoutesWitness ==
    /\ th[1].pc = "n_next" /\ th[1].inv["ok"] = 1
    /\ man.valid /\ ~man.fresh /\ ~man.rep /\ man.inv = NoCalls
    /\ ~TooShort(man.text)
    /\ man.text # th[1].text
    /\ TextHash(man.text) = TextHash(th[1].text)
    /\ processed_texts = {TextHash(man.text)}

\* C15 (change detection): a poll forwards the source content to the filter
\* exactly when it differs from the last observed content; every observed
\* change becomes the last observed content, also when the filter then
\* discards it; unchanged content is not forwarded; and the text the loop
\* is handling is the last observed content.
ChangeDetection ==
    [][/\ LoopRead(1) =>
             /\ clipboard_content' = os_clipboard
             /\ (os_clipboard = clipboard_content) => th'[1].pc = "sleep"
             /\ (th'[1].pc = "n_test")
                   <=> (os_clipboard # clipboard_content /\ LoopAccepts(os_clipboard))
             /\ (th'[1].pc = "n_test") => th'[1].text = os_clipboard
       /\ th[1].pc \in {"n_test"} \cup PastTest => th[1].text = clipboard_content
      ]_vars

ChangeDetectionWitness ==
    /\ th[1].pc = "sleep" /\ escaped[1] = "none"
    /\ clipboard_content = os_clipboard
    /\ clipboard_content # <<>> /\ ~LoopAccepts(clipboard_content)
    /\ processed_texts # {}

\* C16 (status is read-only): get_monitoring_status returns the running
\* flag, the number of subscribers and the size of the cache of the state it
\* is called in, and leaves the running flag, the subscriber set, the cache
\* and the last observed content as they are.
StatusReadOnly ==
    [][GetMonitoringStatus =>
          /\ last'.op = "status"
          /\ last'.res.clipboard_monitoring = monitoring
          /\ last'.res.active_callbacks = Cardinality(text_callbacks)
          /\ last'.res.processed_texts_count = Cardinality(processed_texts)
          /\ UNCHANGED <<monitoring, text_callbacks, processed_texts,
                         clipboard_content>>]_vars

StatusReadOnlyWitness ==
    /\ last.op = "status"
    /\ last.res.clipboard_monitoring
    /\ last.res.active_callbacks = 1
    /\ last.res.processed_texts_count = 2
    /\ Cardinality(processed_texts) = 2 /\ monitoring /\ clipboard_content # <<>>

\* the last call was summarize_text on a text that needs summarizing
NeedsSummary ==
    /\ sumcall.op = "summarize_text"
    /\ Strip(sumcall.text) # <<>>
    /\ ShouldSummarize(CleanText(sumcall.text))

\* C17 (summary length bound), as claimed: whatever summarize_text returns
\* is at most max_summary_length plus the length of the ellipsis long.
SummaryLengthBound ==
    (sumcall.op = "summarize_text" /\ sumcall.res.kind = "str")
        => Len(sumcall.res.text) <= MaxSummaryLength + Len(Ellipsis)

\* C18 (strategy fallback order), as claimed: with the AI provider
\* configured and answering None, summarize_text of a text that needs
\* summarizing returns simple_summarize(clean_text(t)).
FallbackOrder ==
    (NeedsSummary /\ sumcall.provider = "openai" /\ ~sumcall.reply.some)
        => sumcall.res = Returns(SimpleSummarize(CleanText(sumcall.text)))

\* C19 (first success wins, fallback guaranteed), as claimed: for a text
\* that needs summarizing summarize_text always returns a string: the
\* configured provider's summary when the provider gives one, else the
\* rule-based summary.
FirstSuccessWins ==
    NeedsSummary =>
        LET cleaned == CleanText(sumcall.text)
            given == IF sumcall.provider = "ollama"
                     THEN OllamaSummarize(cleaned, sumcall.reply)
                     ELSE IF sumcall.provider = "openai"
                          THEN AiSummarize(cleaned, sumcall.client, sumcall.reply)
                          ELSE NoneValue
        IN /\ sumcall.res.kind = "str"
           /\ sumcall.res.text = IF Truthy(given) THEN given.text
                                 ELSE SimpleSummarize(cleaned)

\* C20 (should_summarize bands): should_summarize is false when
\* summarization is disabled or the text is shorter than twice
\* min_text_length, true when neither and the text is longer than twice
\* max_summary_length, and false in between; a text of exactly twice
\* max_summary_length is not summarized.
ShouldSummarizeBands ==
    sumcall.op = "should_summarize" =>
        LET n == Len(sumcall.text)
            answer == sumcall.res.flag
        IN /\ sumcall.res.kind = "bool"
           /\ (~summarization_enabled \/ n < 2 * MinTextLength) => ~answer
           /\ (summarization_enabled /\ n >= 2 * MinTextLength
                 /\ n > 2 * MaxSummaryLength) => answer
           /\ n <= 2 * MaxSummaryLength => ~answer

ShouldSummarizeBandsWitness ==
    /\ sumcall.op = "should_summarize"
    /\ summarization_enabled
    /\ Len(sumcall.text) = 2 * MaxSummaryLength
    /\ Len(sumcall.text) >= 2 * MinTextLength
    /\ ~sumcall.res.flag

\* the sentences simple_summarize keeps, as the places <<a, b>> of the text
\* they occupy: no terminator inside, no white space at either end, only
\* white space between them and the terminators (or text ends) around
\* them, and more than the minimum long
MeaningfulSpans(s) ==
    { q \in (1..Len(s)) \X (1..Len(s)) :
        /\ q[1] <= q[2]
        /\ q[2] - q[1] + 1 > MinSentenceLength
        /\ \A i \in q[1]..q[2] : s[i] \notin Terminators
        /\ ~IsSpace(s[q[1]]) /\ ~IsSpace(s[q[2]])
        /\ \E p \in 0..(q[1] - 1) :
              /\ p = 0 \/ s[p] \in Terminators
              /\ \A i \in (p + 1)..(q[1] - 1) : IsSpace(s[i])
        /\ \E p \in (q[2] + 1)..(Len(s) + 1) :
              /\ p = Len(s) + 1 \/ s[p] \in Terminators
              /\ \A i \in (q[2] + 1)..(p - 1) : IsSpace(s[i]) }

\* C21 (rule-based summary case analysis): with n meaningful sentences,
\* simple_summarize returns the first max_summary_length characters of the
\* input plus the ellipsis when n = 0, the sentence when n = 1, the two
\* joined with ". " when n = 2, the first and the last joined with ". ... "
\* when n >= 3; a result longer than max_summary_length is cut to it and
\* the ellipsis appended.
SummaryCases ==
    sumcall.op = "simple_summarize" =>
        LET s == sumcall.text
            spans == MeaningfulSpans(s)
            n == Cardinality(spans)
            first == CHOOSE q \in spans : \A r \in spans : q[1] <= r[1]
            final == CHOOSE q \in spans : \A r \in spans : q[1] >= r[1]
            body == IF n = 1 THEN SubSeq(s, first[1], first[2])
                    ELSE IF n = 2
                         THEN SubSeq(s, first[1], first[2]) \o <<".", " ">>
                                 \o SubSeq(s, final[1], final[2])
                         ELSE SubSeq(s, first[1], first[2])
                                 \o <<".", " ", ".", ".", ".", " ">>
                                 \o SubSeq(s, final[1], final[2])
        IN /\ sumcall.res.kind = "str"
           /\ sumcall.res.text =
                 IF n = 0
                 THEN SubSeq(s, 1, IF Len(s) < MaxSummaryLength THEN Len(s)
                                   ELSE MaxSummaryLength) \o <<".", ".", ".">>
                 ELSE IF Len(body) > MaxSummaryLength
                      THEN SubSeq(body, 1, MaxSummaryLength) \o <<".", ".", ".">>
                      ELSE body

\* four meaningful sentences, and the summary cut
SummaryCasesWitness ==
    /\ sumcall.op = "simple_summarize"
    /\ Cardinality(MeaningfulSpans(sumcall.text)) = 4
    /\ Len(sumcall.res.text) = MaxSummaryLength + 3

\* the last call was summarize_text, with summarization enabled and the
\* rule-based strategy alone, on a paragraph of four meaningful sentences
\* exactly twice max_summary_length long
FourSentenceCall ==
    /\ sumcall.op = "summarize_text"
    /\ summarization_enabled
    /\ sumcall.provider = "simple"
    /\ sumcall.text \in ScenarioTexts
    /\ Len(sumcall.text) = 2 * MaxSummaryLength
    /\ Len(sumcall.text) >= 2 * MinTextLength

\* the first sentence of a text, ". ... ", and its last sentence
FirstAndLast(s) ==
    LET spans == MeaningfulSpans(s)
        first == CHOOSE q \in spans : \A r \in spans : q[1] <= r[1]
        final == CHOOSE q \in spans : \A r \in spans : q[1] >= r[1]
    IN SubSeq(s, first[1], first[2]) \o <<".", " ", ".", ".", ".", " ">>
           \o SubSeq(s, final[1], final[2])

\* C22 (four-sentence scenario), as claimed: summarize_text of a paragraph
\* of four sentences that is twice max_summary_length long returns the
\* first sentence, ". ... " and the last sentence, clamped to
\* max_summary_length (with or without the ellipsis after the cut).
FourSentenceSummarized ==
    FourSentenceCall =>
        LET body == FirstAndLast(sumcall.text)
        IN /\ sumcall.res.kind = "str"
           /\ sumcall.res.text
                 \in { body, SubSeq(body, 1, MaxSummaryLength),
                       SubSeq(body, 1, MaxSummaryLength) \o <<".", ".", ".">> }
           /\ Len(sumcall.res.text) <= MaxSummaryLength + 3

\* C22, amended: summarize_text of such a paragraph returns the paragraph
\* unchanged, since it is not longer than twice max_summary_length; it is
\* simple_summarize, called on the paragraph, that returns the first
\* sentence, ". ... " and the last sentence, cut to max_summary_length
\* characters and the ellipsis when longer.
FourSentenceUnchanged ==
    /\ FourSentenceCall => sumcall.res = Returns(sumcall.text)
    /\ (sumcall.op = "simple_summarize" /\ sumcall.text \in ScenarioTexts) =>
          LET body == FirstAndLast(sumcall.text)
          IN sumcall.res.text =
                 IF Len(body) > MaxSummaryLength
                 THEN SubSeq(body, 1, MaxSummaryLength) \o <<".", ".", ".">>
                 ELSE body

FourSentenceUnchangedWitness ==
    /\ FourSentenceCall
    /\ sumcall.res.kind = "str"
    /\ Len(sumcall.res.text) = 2 * MaxSummaryLength
    /\ Cardinality(MeaningfulSpans(sumcall.res.text)) = 4

\* C23 (terminal punctuation): a non-empty result of process_for_voice ends
\* with ".", "!" or "?", and an empty or blank input gives the empty
\* result.
TerminalPunctuation ==
    sumcall.op = "process_for_voice" =>
        /\ (sumcall.res.kind = "str" /\ sumcall.res.text # <<>>)
              => sumcall.res.text[Len(sumcall.res.text)] \in {".", "!", "?"}
        /\ (\A i \in 1..Len(sumcall.text) : sumcall.text[i] \in {" ", "\n"})
              => sumcall.res = Returns(<<>>)

\* an input that ends with a letter, with an abbreviation expanded and the
\* full stop appended
TerminalPunctuationWitness ==
    /\ sumcall.op = "process_for_voice"
    /\ sumcall.text # <<>>
    /\ sumcall.text[Len(sumcall.text)] \notin {".", "!", "?", " ", "\n"}
    /\ sumcall.res.kind = "str"
    /\ Len(sumcall.res.text) > Len(sumcall.text) + 1
    /\ sumcall.res.text[Len(sumcall.res.text)] = "."

\* C24 (AI strategy failure containment): ai_summarize and ollama_summarize
\* never raise; they return None when the client is unavailable or the
\* request or its reply fails, and a summary they return is at most
\* max_summary_length plus the length of the ellipsis long.
StrategyContainment ==
    sumcall.op \in {"ai_summarize", "ollama_summarize"} =>
        /\ sumcall.res.kind \in {"NoneType", "str"}
        /\ (~sumcall.reply.some \/ (sumcall.op = "ai_summarize" /\ ~sumcall.client))
              => sumcall.res.kind = "NoneType"
        /\ sumcall.res.kind = "str"
              => Len(sumcall.res.text) <= MaxSummaryLength + 3

\* a client, a request that failed, and None returned
StrategyContainmentWitness ==
    /\ sumcall.op = "ai_summarize"
    /\ sumcall.client
    /\ ~sumcall.reply.some
    /\ sumcall.res.kind = "NoneType"

FingerprintNormalization ==
    [][(/\ th[Main].pc = "n_test" /\ th'[Main].pc # "n_test"
        /\ man.valid /\ man.fresh /\ ~man.trunc
        /\ \E cb \in Callbacks : man.inv[cb] > 0
        /\ man.text # th[Main].text
        /\ Lower(Strip(man.text)) = Lower(Strip(th[Main].text)))
          => /\ TextHash(man.text) = TextHash(th[Main].text)
             /\ th'[Main].pc = "idle"
             /\ processed_texts' = processed_texts]_vars

\* the padded, capitalised spelling found in a cache that holds its one
\* fingerprint
FingerprintNormalizationWitness ==
    /\ man.valid /\ ~man.fresh /\ ~man.rep /\ man.inv = NoCalls
    /\ man.text = <<" ", "A", "b", "c", " ">>
    /\ processed_texts = {<<"a", "b", "c">>}
    /\ text_callbacks # {}

\* C27 (subscriber identity): adding a registered callback and removing an
\* unregistered one leave the subscriber set as it is, a removed callback is
\* no longer in the set, and a fan-out, in the caller or in the poll loop of
\* a running monitor, invokes only callbacks registered at that moment and
\* each at most once for a text.
SubscriberIdentity ==
    [][/\ \A cb \in Callbacks :
             (AddTextCallback(cb) /\ cb \in text_callbacks)
                => text_callbacks' = text_callbacks
       /\ \A cb \in Callbacks :
             (RemoveTextCallback(cb) /\ cb \notin text_callbacks)
                => text_callbacks' = text_callbacks
       /\ \A cb \in Callbacks :
             RemoveTextCallback(cb) => cb \notin text_callbacks'
       /\ \A t \in Threads, cb \in Callbacks :
             th'[t].inv[cb] > th[t].inv[cb]
                => (cb \in text_callbacks /\ th[t].inv[cb] = 0)]_vars

\* the poll loop in a fan-out that began with two subscribers, one of them
\* removed since and not invoked
SubscriberIdentityWitness ==
    /\ monitoring
    /\ th[1].pc = "n_next" /\ th[1].size0 = 2
    /\ text_callbacks = {"ok"}
    /\ th[1].inv["ok"] = 1 /\ th[1].inv["bad"] = 0

\* the loop threads that have passed the test of line 96 and are about to
\* read the clipboard
Polling == {t \in LoopThreads : th[t].pc = "read"}

\* C28 (at most one poll loop), as claimed: whatever the sequence of starts
\* and stops, a stop that timed out included, at most one poll-loop thread
\* of the monitor is polling at any time.
AtMostOnePollLoop == Cardinality(Polling) <= 1

\* C29 (insert before deliver): once the fan-out of a text has begun its
\* fingerprint is in the cache (unless the truncation of that very call
\* dropped it), and a text whose only subscriber failed is not delivered
\* again when process_manual_text is called with it once more: the second
\* call stops at the membership test and invokes nobody.
InsertBeforeDeliver ==
    /\ (th[Main].pc \in {"n_next", "n_hung"} /\ ~man.cur)
          => TextHash(th[Main].text) \in processed_texts
    /\ (man.rep /\ man.pfresh /\ text_callbacks = {"bad"} /\ man.pinv["bad"] = 1)
          => (~man.fresh /\ man.inv = NoCalls)

\* the second call after a delivery whose only invocation failed
InsertBeforeDeliverWitness ==
    /\ man.rep /\ man.pfresh
    /\ text_callbacks = {"bad"}
    /\ man.pinv = [NoCalls EXCEPT !["bad"] = 1]
    /\ ~man.fresh /\ man.inv = NoCalls
    /\ TextHash(man.text) \in processed_texts

\* nothing has been done with the monitor since its construction but
\* registering subscribers
Untouched ==
    /\ last.op = "none" /\ ~man.valid
    /\ th[Main].pc = "idle" /\ th[1].pc = "unborn"

\* clear_processed_cache empties the cache and leaves the running flag,
\* the thread, the subscriber set and the last observed content alone
ResetFrame ==
    ClearProcessedCache
        => /\ processed_texts' = {}
           /\ UNCHANGED <<monitoring, monitor_thread, text_callbacks, clipboard_content>>

\* a text whose fingerprint the last reset removed, submitted again for the
\* first time since, passes the membership test
DeliveredAgain ==
    (/\ th[Main].pc = "n_test" /\ th'[Main].pc # "n_test"
     /\ last.op = "clear"
     /\ TextHash(th[Main].text) \in last.res)
        => th'[Main].pc = "n_add"

\* C30 (cache lifecycle and reset), as claimed: the cache is empty when
\* start_clipboard_monitoring starts the monitor; clear_processed_cache
\* empties it and leaves the running flag, the subscriber set and the last
\* observed content unchanged; after a reset a text delivered before it is
\* delivered again.
CacheEmptyAtStart ==
    [][/\ (StartClipboardMonitoring({1}) /\ ~monitoring /\ monitoring')
             => processed_texts = {}
       /\ ResetFrame
       /\ DeliveredAgain]_vars

\* C30, amended: the cache is empty when the monitor is constructed, and
\* start_clipboard_monitoring leaves it as it is; clear_processed_cache
\* empties it and leaves the running flag, the subscriber set and the last
\* observed content unchanged; after a reset a text delivered before it is
\* delivered again.
CacheLifecycle ==
    [][/\ Untouched => processed_texts = {}
       /\ StartClipboardMonitoring({1}) => processed_texts' = processed_texts
       /\ ResetFrame
       /\ DeliveredAgain]_vars

\* a text delivered before a reset, delivered again after it, in a running
\* monitor that has observed a clipboard content
CacheLifecycleWitness ==
    /\ last.op = "clear"
    /\ man.valid /\ man.fresh /\ man.inv["ok"] = 1
    /\ TextHash(man.text) \in last.pre
    /\ TextHash(man.text) \in processed_texts
    /\ monitoring /\ clipboard_content # <<>>

\* C31 (no retry, bounded provider call), as claimed: a call of
\* summarize_text or of a strategy sends at most one request to the
\* provider, every request carries the one timeout of 30, and when the
\* request of a text that needs summarizing fails (as on the expiry of the
\* timeout) summarize_text returns the rule-based summary.
BoundedProviderCall ==
    /\ Len(sumcall.sent) <= 1
    /\ \A i \in 1..Len(sumcall.sent) : sumcall.sent[i].timeouts = {ProviderTimeout}
    /\ (NeedsSummary /\ sumcall.provider \in {"ollama", "openai"} /\ ~sumcall.reply.some)
          => sumcall.res = Returns(SimpleSummarize(CleanText(sumcall.text)))

\* the trimmed fragments of a text between its terminators that are at
\* least least characters long, as the places <<a, b>> they occupy
FragmentsAtLeast(s, least) ==
    { q \in (1..Len(s)) \X (1..Len(s)) :
        /\ q[1] <= q[2]
        /\ q[2] - q[1] + 1 >= least
        /\ \A i \in q[1]..q[2] : s[i] \notin Terminators
        /\ ~IsSpace(s[q[1]]) /\ ~IsSpace(s[q[2]])
        /\ \E p \in 0..(q[1] - 1) :
              /\ p = 0 \/ s[p] \in Terminators
              /\ \A i \in (p + 1)..(q[1] - 1) : IsSpace(s[i])
        /\ \E p \in (q[2] + 1)..(Len(s) + 1) :
              /\ p = Len(s) + 1 \/ s[p] \in Terminators
              /\ \A i \in (q[2] + 1)..(p - 1) : IsSpace(s[i]) }

\* the rule-based summary of a text of which the fragments kept are given
SummaryOver(s, kept) ==
    LET n == Cardinality(kept)
        first == CHOOSE q \in kept : \A r \in kept : q[1] <= r[1]
        final == CHOOSE q \in kept : \A r \in kept : q[1] >= r[1]
        body == IF n = 1 THEN SubSeq(s, first[1], first[2])
                ELSE SubSeq(s, first[1], first[2])
                        \o (IF n = 2 THEN <<".", " ">>
                            ELSE <<".", " ", ".", ".", ".", " ">>)
                        \o SubSeq(s, final[1], final[2])
    IN IF n = 0
       THEN SubSeq(s, 1, IF Len(s) < MaxSummaryLength THEN Len(s)
                         ELSE MaxSummaryLength) \o <<".", ".", ".">>
       ELSE IF Len(body) > MaxSummaryLength
            THEN SubSeq(body, 1, MaxSummaryLength) \o <<".", ".", ".">>
            ELSE body

\* C32 (sentence-fragment threshold), as claimed: simple_summarize discards
\* exactly the fragments whose trimmed length is below the threshold; a
\* fragment of exactly the threshold is kept and counted as a sentence.
FragmentThreshold ==
    sumcall.op = "simple_summarize" =>
        sumcall.res.text
            = SummaryOver(sumcall.text, FragmentsAtLeast(sumcall.text, MinSentenceLength))

\* C33 (start-up baseline), as claimed: when a poll loop starts, the content
\* the source holds is recorded as the last observed content, and a poll
\* hands a text to the fan-out only when the source differs from the last
\* observed content.
StartupBaseline ==
    [][\A t \in LoopThreads :
          /\ (th[t].pc = "init" /\ th'[t].pc # "init")
                => clipboard_content' = os_clipboard
          /\ (th[t].pc = "read" /\ th'[t].pc = "n_test")
                => (os_clipboard # clipboard_content /\ th'[t].text = os_clipboard)]_vars

\* C34 (empty provider reply counts as failure), as claimed: when the
\* configured provider answers with a summary that is empty after trimming,
\* summarize_text of a text that needs summarizing returns the rule-based
\* summary, which is not empty.
EmptyReplyFallsBack ==
    (/\ NeedsSummary
     /\ sumcall.provider \in {"ollama", "openai"}
     /\ sumcall.reply.some
     /\ \A i \in 1..Len(sumcall.reply.text) : sumcall.reply.text[i] \in {" ", "\n"})
        => /\ sumcall.res.kind = "str"
           /\ sumcall.res.text # <<>>
           /\ sumcall.res.text = SummaryOver(CleanText(sumcall.text),
                                             MeaningfulSpans(CleanText(sumcall.text)))

\* C35 (synthesizer gate in the app), as claimed: the detection callback is
\* registered, and the monitor runs, only when the synthesizer the app
\* holds has passed its test; a start_monitoring whose initialisation fails
\* registers nothing, starts nothing and leaves monitoring_active False;
\* monitoring_active is True only while the monitor is running.
SynthesizerGate ==
    /\ (OnTextDetectedCallback \in text_callbacks \/ monitoring) => appcall.passed
    /\ (appcall.op = "start_monitoring" /\ appcall.attempted /\ ~appcall.passed)
          => /\ OnTextDetectedCallback \notin text_callbacks
             /\ ~monitoring
             /\ ~app.monitoring_active
    /\ app.monitoring_active => monitoring

\* C36 (app callback containment and counting): no exception leaves
\* on_text_detected, and every text delivered to it raises processed_count
\* by exactly one, whether process_for_voice or play_text raised, the
\* processed text was empty, or the text was played.
CallbackContainment ==
    appcall.op = "on_text_detected" =>
        /\ appcall.escaped = "none"
        /\ app.processed_count = appcall.count0 + 1
        /\ ui.status_data.processed_count = app.processed_count

\* C36 witness: texts were delivered whose processing raised, whose
\* processed form was empty, and whose playback raised; this is the state
\* after a delivery whose processing raised AttributeError, counted all
\* the same.
CallbackContainmentWitness ==
    /\ appcall.op = "on_text_detected"
    /\ appcall.caught = "AttributeError"
    /\ app.processed_count = MaxProcessed

\* C37 (menu validity), as claimed: after change_menu calls whose arguments
\* are defined menu names or "back", current_menu names a defined menu, and
\* change_menu("back") on an empty menu_stack leaves the stack empty and
\* the interface on a defined menu.
MenuValidity ==
    /\ ui.current_menu \in DefinedMenus
    /\ \A i \in 1..Len(ui.menu_stack) : ui.menu_stack[i] \in DefinedMenus

\* C38 (back navigation round trip): change_menu(m) for a defined menu m,
\* followed by change_menu("back"), restores current_menu and menu_stack
\* to what they were before the pair and leaves selected_index at 0.
BackRoundTrip ==
    (/\ Len(nav) = 2
     /\ nav[1].op = "change_menu" /\ nav[1].name \in DefinedMenus
     /\ nav[2].op = "change_menu" /\ nav[2].name = "back")
        => /\ ui.current_menu = nav[1].before.current_menu
           /\ ui.menu_stack = nav[1].before.menu_stack
           /\ ui.selected_index = 0

\* C38 witness: the pair was made from a submenu with a menu on the stack
\* and an option other than the first selected.
BackRoundTripWitness ==
    /\ Len(nav) = 2
    /\ nav[1].op = "change_menu" /\ nav[1].name \in DefinedMenus
    /\ nav[2].op = "change_menu" /\ nav[2].name = "back"
    /\ nav[1].before.current_menu = "settings"
    /\ nav[1].before.menu_stack # <<>>
    /\ nav[1].before.selected_index > 0
    /\ ui.current_menu = "settings"

\* the last two calls were op1 then op2
Pair(op1, op2) == Len(nav) = 2 /\ nav[1].op = op1 /\ nav[2].op = op2

\* the last call was op
LastCall(op) == nav # <<>> /\ nav[Len(nav)].op = op

\* C39 (selection in range): selected_index is an index of an option of
\* the displayed menu in every state; navigate_up from the first option
\* gives the last and navigate_down from the last gives the first; and
\* each undoes the other.
SelectionInRange ==
    /\ 0 <= ui.selected_index /\ ui.selected_index < Len(CurrentOptions(ui))
    /\ (LastCall("navigate_up") /\ nav[Len(nav)].before.selected_index = 0)
          => ui.selected_index = Len(CurrentOptions(ui)) - 1
    /\ (LastCall("navigate_down")
          /\ nav[Len(nav)].before.selected_index = Len(CurrentOptions(ui)) - 1)
          => ui.selected_index = 0
    /\ (Pair("navigate_up", "navigate_down") \/ Pair("navigate_down", "navigate_up"))
          => ui.selected_index = nav[1].before.selected_index

\* C39 witness: navigate_up from the first option of the Settings menu,
\* undone by navigate_down.
SelectionInRangeWitness ==
    /\ Pair("navigate_up", "navigate_down")
    /\ ui.current_menu = "settings"
    /\ nav[1].before.selected_index = 0
    /\ nav[2].before.selected_index = Len(MenuOptions["settings"]) - 1
    /\ ui.selected_index = 0

====
